---- MODULE Spec2Model ----
(***************************************************************************)
(* MetaSimPy: the time engine (Timeline), the agent registry, the agent    *)
(* decision cycle and the occupancy ledger (WorldState), as state machines.*)
(* Simulated time is counted in minutes since 2023-01-01 00:00.            *)
(***************************************************************************)
EXTENDS Integers, Sequences, FiniteSets, TLC

VARIABLES
    start_time,       \* the start_time the Timeline was constructed with
    current_time,     \* Timeline._current_time
    is_paused,        \* Timeline._is_paused
    listeners,        \* Timeline._listeners: event name -> sequence of callbacks
    last_subscribe,   \* the last call of Timeline.subscribe and the listeners before it
    time_scale,       \* Timeline._time_scale, a ratio num/den
    sleep_duration,   \* Timeline._sleep_duration, a ratio num/den
    last_set_scale,   \* the last call of Timeline.set_time_scale and the values before it
    raw_connections,  \* the connections file: a dict of dicts, in file order
    connections,      \* WorldMap._connections
    map_loaded,       \* whether load_map_from_files has run
    path_call,        \* the last call of WorldMap.find_path and its outcome
    loop_pc,          \* position of the Timeline.start_loop coroutine
    last_tick,        \* what the last _tick did: old time, new time, the calls made
    error_log,        \* the (site, exception) pairs written with logger.error
    registry_agents,  \* AgentRegistry._agents, in insertion order
    tasks,            \* decision tasks created by asyncio.create_task, not yet run
    last_event,       \* what the last on_minute_update did
    current_action,   \* Agent._current_action, per agent
    current_location, \* Agent._current_location, per agent
    agent_cfg,        \* per agent: whether llm and memory_system are set
    cycle,            \* per agent: the think_and_act call in flight, and the last one
    idle_call,        \* the last direct call of Agent.is_idle and its outcome
    occupied_jobs,    \* WorldState.occupied_jobs
    assign_ret,       \* the last assign_job_to_agent call and what it returned
    llm_output,       \* the decision provider's output handed to _parse_llm_response
    parsed,           \* the action _parse_llm_response returned for llm_output
    internal_state,   \* Agent._internal_state, per agent
    relationships,    \* Agent._relationships, per agent
    last_exec,        \* the last action executed or resolver called, and its outcome
    ops,              \* how many of them have run
    registry_map,     \* AgentRegistry._agents: the Agent object stored under each id
    last_register,    \* the last call of register_agent and its outcome
    store,            \* the memory store: per agent, the documents of its collection
    memory_call       \* the last call of add_memory or retrieve_memories and its outcome

vars == <<start_time, current_time, is_paused, listeners, last_subscribe, time_scale,
          sleep_duration, last_set_scale, raw_connections, connections,
          map_loaded, path_call, loop_pc, last_tick, error_log,
          registry_agents, tasks, last_event, current_action, current_location,
          agent_cfg, cycle, idle_call, occupied_jobs, assign_ret, llm_output, parsed,
          internal_state, relationships, last_exec, ops, registry_map, last_register,
          store, memory_call>>

timeline_vars == <<start_time, current_time, is_paused, listeners, last_subscribe, loop_pc,
                   last_tick, error_log>>
scale_vars == <<time_scale, sleep_duration, last_set_scale>>

map_vars == <<raw_connections, connections, map_loaded, path_call>>

agent_vars == <<registry_agents, tasks, last_event, current_action, current_location,
                agent_cfg, cycle, idle_call>>
ledger_vars == <<occupied_jobs, assign_ret>>
parse_vars == <<llm_output, parsed>>
life_vars == <<internal_state, relationships, last_exec, ops>>
reg_vars == <<registry_map, last_register>>
memory_vars == <<store, memory_call>>

----------------------------------------------------------------------------
(* Bounds of the model *)

MaxTicks == 2
MaxListeners == 2
MaxOps == 2

----------------------------------------------------------------------------
(* datetime: the fields _tick and _get_season_for_date read *)

DaysBeforeMonth == <<0, 31, 59, 90, 120, 151, 181, 212, 243, 273, 304, 334>>

DayOfYear(t) == (t \div 1440) % 365

Hour(t) == (t % 1440) \div 60

Month(t) ==
    CHOOSE m \in 1..12 :
        /\ DaysBeforeMonth[m] <= DayOfYear(t)
        /\ (m = 12 \/ DayOfYear(t) < DaysBeforeMonth[m + 1])

Day(t) == DayOfYear(t) - DaysBeforeMonth[Month(t)] + 1

AddMinutes(t, d) == t + d

\* the start timestamps the Timeline is constructed with: 2023-01-01 12:00,
\* 00:58 (an hour ends), 23:58 (a day ends), 2023-01-31 23:58 (a month ends
\* within a season) and 2023-02-28 23:58 (a season ends)
StartTimes == {720, 58, 1438, 44638, 84958}

EventNames == {"on_minute_passed", "on_hour_passed", "on_day_passed", "on_season_changed"}

\* the callbacks subscribed in the model: the registry's on_minute_update and
\* a plain callback that may raise when it is called
PlainCallbacks == {"cb1"}

Callbacks == {"on_minute_update"} \cup PlainCallbacks

\* the mapping with March left in the else branch
_get_season_for_date_march_winter(t) ==
    IF Month(t) \in {4, 5} THEN "Spring"
    ELSE IF Month(t) \in {6, 7, 8} THEN "Summer"
    ELSE IF Month(t) \in {9, 10, 11} THEN "Autumn"
    ELSE "Winter"

_get_season_for_date(t) ==
    IF Month(t) \in {3, 4, 5} THEN "Spring"
    ELSE IF Month(t) \in {6, 7, 8} THEN "Summer"
    ELSE IF Month(t) \in {9, 10, 11} THEN "Autumn"
    ELSE "Winter"

----------------------------------------------------------------------------
(* Agents: Agent.is_idle and the two places that call it *)

Agents == {"a1", "a2"}

NoAction == [kind |-> "None", end_time |-> -1]

\* the names metasimpy.core.agents.interactions defines (agent.py reads them
\* as actions.<name>)
ActionsModule ==
    {"ActionBase", "WaitAction", "SpeakAction", "MoveToAction", "UseObjectAction",
     "GardeningAction", "WalkAction", "ListenAction", "HangOutAction", "EatAction",
     "SleepAction", "ShowerAction", "BuyAction", "TakeBusAction",
     "LeaveCommunityAction"}

\* reading actions.<name>: an AttributeError when the module does not define it
HasActionsAttr(name) == name \in ActionsModule

\* a Python call binds when the positional arguments passed are the
\* parameters the function requires (none of these has defaults); otherwise
\* the call raises TypeError before the body runs
Binds(passed, required) == passed = required

NoJob == [location |-> "None", job |-> "None"]

\* remove_agent_from_job that empties the ledger
remove_agent_from_job_all(jobs, a) == [w \in DOMAIN jobs |-> NoJob]

\* WorldState.remove_agent_from_job
remove_agent_from_job(jobs, a) == [jobs EXCEPT ![a] = NoJob]

\* Agent.is_idle(current_time, world_state) on an agent whose _current_action
\* is act: the exception raised (or "none"), the value returned, and the
\* agent's _current_action and the ledger afterwards
is_idle(act, a, t, jobs) ==
    IF act = NoAction
    THEN [exc |-> "none", ret |-> TRUE, act |-> act, jobs |-> jobs]
    ELSE IF t >= act.end_time
    THEN IF ~HasActionsAttr("ActionBase") \/ ~HasActionsAttr("WorkAction")
         THEN [exc |-> "AttributeError", ret |-> FALSE, act |-> act, jobs |-> jobs]
         ELSE [exc |-> "none", ret |-> TRUE, act |-> NoAction,
               jobs |-> IF act.kind = "Work" THEN remove_agent_from_job(jobs, a)
                        ELSE jobs]
    ELSE [exc |-> "none", ret |-> FALSE, act |-> act, jobs |-> jobs]

\* parameters of Agent.is_idle after self, and the arguments
\* AgentRegistry.on_minute_update passes to it
IsIdleParams == 2

IsIdleArgsFromRegistry == 1

\* parameters of Agent.think_and_act after self, and the arguments
\* AgentRegistry._trigger_agent_think passes to it
ThinkAndActParams == 5

ThinkAndActArgsFromRegistry == 1

\* on_minute_update passing is_idle both of its arguments
RegistryIsIdle_two_args(act, a, t, jobs) == is_idle(act, a, t, jobs)

\* agent.is_idle(current_time) as on_minute_update calls it
RegistryIsIdle(act, a, t, jobs) ==
    IF Binds(IsIdleArgsFromRegistry, IsIdleParams)
    THEN is_idle(act, a, t, jobs)
    ELSE [exc |-> "TypeError", ret |-> FALSE, act |-> act, jobs |-> jobs]

\* AgentRegistry.on_minute_update(current_time): the loop over _agents from
\* its i-th entry on. st carries the agents' actions, the ledger, the agents
\* is_idle was called for, the agents a task was created for, and the
\* exception that ended the loop
RECURSIVE ScanAgents(_, _, _, _)
ScanAgents(order, i, t, st) ==
    IF i > Len(order) THEN st
    ELSE LET a == order[i]
             r == RegistryIsIdle(st.acts[a], a, t, st.jobs)
         IN  IF r.exc # "none"
             THEN [st EXCEPT !.exc = r.exc, !.checked = @ \cup {a}]
             ELSE ScanAgents(order, i + 1, t,
                     [acts |-> [st.acts EXCEPT ![a] = r.act],
                      jobs |-> r.jobs,
                      checked |-> st.checked \cup {a},
                      dispatched |-> IF r.ret THEN st.dispatched \cup {a}
                                     ELSE st.dispatched,
                      exc |-> "none"])

on_minute_update(order, t, acts, jobs) ==
    ScanAgents(order, 1, t, [acts |-> acts, jobs |-> jobs, checked |-> {},
                             dispatched |-> {}, exc |-> "none"])

SeqRange(s) == {s[i] : i \in 1..Len(s)}

----------------------------------------------------------------------------
(* Timeline *)

NoListeners == [e \in EventNames |-> <<>>]

NoTick == [old |-> -1, new |-> -1, calls |-> <<>>, subs |-> NoListeners]

NoEvent == [time |-> -1, registered |-> {}, idle |-> {}, waiting |-> {}, due |-> {},
            checked |-> {}, dispatched |-> {}, exc |-> "none"]

NoSubscribe == [event |-> "none", cb |-> "none", before |-> NoListeners]

\* subscribe on a _listeners that makes a list for a name it does not have
subscribe_any_name(ls, event_name, callback) ==
    [e \in DOMAIN ls \cup {event_name} |->
        IF e = event_name
        THEN Append(IF e \in DOMAIN ls THEN ls[e] ELSE <<>>, callback)
        ELSE ls[e]]

\* Timeline.subscribe(event_name, callback)
subscribe(ls, event_name, callback) ==
    IF event_name \in DOMAIN ls
    THEN [ls EXCEPT ![event_name] = Append(@, callback)]
    ELSE ls

\* one callback invocation made by _publish
Call(event, cb, t, s, raised) ==
    [event |-> event, cb |-> cb, time |-> t, season |-> s, raised |-> raised]

\* _publish without the try/except around each call: the first callback that
\* raises ends the loop
_publish_no_try(subs, event, t, s, R, regRaised) ==
    LET all == [i \in 1..Len(subs) |->
                   Call(event, subs[i], t, s,
                        IF subs[i] = "on_minute_update" THEN regRaised ELSE subs[i] \in R)]
        last == IF \E i \in 1..Len(subs) : all[i].raised
                THEN CHOOSE i \in 1..Len(subs) :
                        all[i].raised /\ \A j \in 1..(i - 1) : ~all[j].raised
                ELSE Len(subs)
    IN  SubSeq(all, 1, last)

\* _publish walking the subscriber list from its end
_publish_reversed(subs, event, t, s, R, regRaised) ==
    [i \in 1..Len(subs) |->
        Call(event, subs[Len(subs) + 1 - i], t, s,
             IF subs[Len(subs) + 1 - i] = "on_minute_update" THEN regRaised
             ELSE subs[Len(subs) + 1 - i] \in R)]

\* Timeline._publish(event_name, arg) over the subscriber list subs: every
\* subscriber is called, in order, inside its own try/except. R is the set of
\* plain callbacks that raise when called, regRaised whether on_minute_update does
_publish(subs, event, t, s, R, regRaised) ==
    [i \in 1..Len(subs) |->
        Call(event, subs[i], t, s,
             IF subs[i] = "on_minute_update" THEN regRaised ELSE subs[i] \in R)]

\* _tick with the test of the hour placed under the test of the day
TickCalls_hour_under_day(ls, old, new, R, regRaised) ==
    _publish(ls["on_minute_passed"], "on_minute_passed", new, "none", R, regRaised)
    \o (IF Day(old) # Day(new)
        THEN (IF Hour(old) # Hour(new)
              THEN _publish(ls["on_hour_passed"], "on_hour_passed", new, "none", R, regRaised)
              ELSE <<>>)
             \o _publish(ls["on_day_passed"], "on_day_passed", new, "none", R, regRaised)
             \o (IF _get_season_for_date(old) # _get_season_for_date(new)
                 THEN _publish(ls["on_season_changed"], "on_season_changed", -1,
                               _get_season_for_date(new), R, regRaised)
                 ELSE <<>>)
        ELSE <<>>)

\* _tick publishing before it advances _current_time: the subscribers are
\* handed the old time
TickCalls_before_advance(ls, old, new, R, regRaised) ==
    _publish(ls["on_minute_passed"], "on_minute_passed", old, "none", R, regRaised)
    \o (IF Hour(old) # Hour(new)
        THEN _publish(ls["on_hour_passed"], "on_hour_passed", old, "none", R, regRaised)
        ELSE <<>>)
    \o (IF Day(old) # Day(new)
        THEN _publish(ls["on_day_passed"], "on_day_passed", old, "none", R, regRaised)
             \o (IF _get_season_for_date(old) # _get_season_for_date(new)
                 THEN _publish(ls["on_season_changed"], "on_season_changed", -1,
                               _get_season_for_date(new), R, regRaised)
                 ELSE <<>>)
        ELSE <<>>)

\* the calls Timeline._tick makes when it moves the clock from old to new
TickCalls(ls, old, new, R, regRaised) ==
    _publish(ls["on_minute_passed"], "on_minute_passed", new, "none", R, regRaised)
    \o (IF Hour(old) # Hour(new)
        THEN _publish(ls["on_hour_passed"], "on_hour_passed", new, "none", R, regRaised)
        ELSE <<>>)
    \o (IF Day(old) # Day(new)
        THEN _publish(ls["on_day_passed"], "on_day_passed", new, "none", R, regRaised)
             \o (IF _get_season_for_date(old) # _get_season_for_date(new)
                 THEN _publish(ls["on_season_changed"], "on_season_changed", -1,
                               _get_season_for_date(new), R, regRaised)
                 ELSE <<>>)
        ELSE <<>>)

\* the errors _publish logs for the calls that raised
PublishErrors(calls) ==
    {[site |-> "_publish", exc |-> calls[i].cb] : i \in {j \in 1..Len(calls) : calls[j].raised}}

\* Timeline._tick, with the plain callbacks in R raising
_tick(R) ==
    LET old == current_time
        new == AddMinutes(current_time, 1)
        hasReg == "on_minute_update" \in SeqRange(listeners["on_minute_passed"])
        reg == on_minute_update(registry_agents, new, current_action, occupied_jobs)
        calls == TickCalls(listeners, old, new, R, hasReg /\ reg.exc # "none")
    IN  /\ current_time' = new
        /\ last_tick' = [old |-> old, new |-> new, calls |-> calls, subs |-> listeners]
        /\ error_log' = error_log \cup PublishErrors(calls)
        /\ IF hasReg
           THEN /\ current_action' = reg.acts
                /\ occupied_jobs' = reg.jobs
                /\ tasks' = tasks \cup reg.dispatched
                /\ last_event' =
                      [time |-> new,
                       registered |-> SeqRange(registry_agents),
                       idle |-> {a \in SeqRange(registry_agents) :
                                    current_action[a] = NoAction},
                       waiting |-> {a \in SeqRange(registry_agents) :
                                    current_action[a] # NoAction
                                    /\ new < current_action[a].end_time},
                       due |-> {a \in SeqRange(registry_agents) :
                                    current_action[a] # NoAction
                                    /\ new >= current_action[a].end_time},
                       checked |-> reg.checked,
                       dispatched |-> reg.dispatched,
                       exc |-> reg.exc]
           ELSE UNCHANGED <<current_action, occupied_jobs, tasks, last_event>>

\* a float as a ratio of integers, den > 0
Ratio(num, den) == [num |-> num, den |-> den]

\* the scales set_time_scale is called with: -1.0, 0.0, 0.5, 1.0, 4.0
Scales == {Ratio(0 - 1, 1), Ratio(0, 1), Ratio(1, 2), Ratio(1, 1), Ratio(4, 1)}

\* set_time_scale with "scale < 0" for its test
set_time_scale_lt(ts, sd, scale) ==
    IF scale.num < 0
    THEN [time_scale |-> ts, sleep_duration |-> sd]
    ELSE [time_scale |-> scale, sleep_duration |-> Ratio(scale.den, scale.num)]

\* Timeline.set_time_scale(scale) on a Timeline whose _time_scale is ts and
\* _sleep_duration is sd: the two fields afterwards
set_time_scale(ts, sd, scale) ==
    IF scale.num <= 0
    THEN [time_scale |-> ts, sleep_duration |-> sd]
    ELSE [time_scale |-> scale, sleep_duration |-> Ratio(scale.den, scale.num)]

\* a caller changes the scale
SetTimeScale ==
    /\ \E scale \in Scales :
          LET r == set_time_scale(time_scale, sleep_duration, scale)
          IN  /\ time_scale' = r.time_scale
              /\ sleep_duration' = r.sleep_duration
              /\ last_set_scale' = [scale |-> scale, time_scale |-> time_scale,
                                    sleep_duration |-> sleep_duration, ctor |-> FALSE]
    /\ UNCHANGED <<timeline_vars, agent_vars, ledger_vars, parse_vars>>
    /\ UNCHANGED map_vars
    /\ UNCHANGED <<life_vars, reg_vars, memory_vars>>

\* Timeline.pause and Timeline.resume
pause ==
    /\ is_paused' = TRUE
    /\ UNCHANGED <<start_time, current_time, listeners, last_subscribe, loop_pc, last_tick, error_log>>
    /\ UNCHANGED <<agent_vars, ledger_vars, parse_vars>>
    /\ UNCHANGED scale_vars
    /\ UNCHANGED map_vars
    /\ UNCHANGED <<life_vars, reg_vars, memory_vars>>

resume ==
    /\ is_paused' = FALSE
    /\ UNCHANGED <<start_time, current_time, listeners, last_subscribe, loop_pc, last_tick, error_log>>
    /\ UNCHANGED <<agent_vars, ledger_vars, parse_vars>>
    /\ UNCHANGED scale_vars
    /\ UNCHANGED map_vars
    /\ UNCHANGED <<life_vars, reg_vars, memory_vars>>

\* Timeline.start_loop: the test of _is_paused at the top of the loop
LoopCheck ==
    /\ loop_pc = "check"
    /\ loop_pc' = IF is_paused THEN "sleep_paused" ELSE "sleep_tick"
    /\ UNCHANGED <<start_time, current_time, is_paused, listeners, last_subscribe, last_tick, error_log>>
    /\ UNCHANGED <<agent_vars, ledger_vars, parse_vars>>
    /\ UNCHANGED scale_vars
    /\ UNCHANGED map_vars
    /\ UNCHANGED <<life_vars, reg_vars, memory_vars>>

\* Timeline.start_loop: asyncio.sleep(0.5) returns, and the loop continues
LoopWake ==
    /\ loop_pc = "sleep_paused"
    /\ loop_pc' = "check"
    /\ UNCHANGED <<start_time, current_time, is_paused, listeners, last_subscribe, last_tick, error_log>>
    /\ UNCHANGED <<agent_vars, ledger_vars, parse_vars>>
    /\ UNCHANGED scale_vars
    /\ UNCHANGED map_vars
    /\ UNCHANGED <<life_vars, reg_vars, memory_vars>>

\* Timeline.start_loop: asyncio.sleep(_sleep_duration) returns, and _tick runs
LoopTick ==
    /\ loop_pc = "sleep_tick"
    /\ current_time < start_time + MaxTicks
    /\ \E R \in SUBSET PlainCallbacks : _tick(R)
    /\ loop_pc' = "check"
    /\ UNCHANGED <<start_time, is_paused, listeners, last_subscribe>>
    /\ UNCHANGED <<registry_agents, current_location, agent_cfg, cycle, idle_call,
                   assign_ret, parse_vars>>
    /\ UNCHANGED scale_vars
    /\ UNCHANGED map_vars
    /\ UNCHANGED <<life_vars, reg_vars, memory_vars>>

\* a caller subscribes a callback: on_minute_update goes under on_minute_passed,
\* once, as the wiring does; a plain callback under any event name, known or not
Subscribe ==
    /\ \E e \in EventNames \cup {"on_tick"}, cb \in Callbacks :
          /\ Len(listeners["on_minute_passed"]) + Len(listeners["on_hour_passed"])
               + Len(listeners["on_day_passed"]) + Len(listeners["on_season_changed"])
               < MaxListeners
          /\ cb = "on_minute_update" =>
                /\ e = "on_minute_passed"
                /\ cb \notin SeqRange(listeners[e])
          /\ listeners' = subscribe(listeners, e, cb)
          /\ last_subscribe' = [event |-> e, cb |-> cb, before |-> listeners]
    /\ UNCHANGED <<start_time, current_time, is_paused, loop_pc, last_tick, error_log>>
    /\ UNCHANGED <<agent_vars, ledger_vars, parse_vars>>
    /\ UNCHANGED scale_vars
    /\ UNCHANGED map_vars
    /\ UNCHANGED <<life_vars, reg_vars, memory_vars>>

----------------------------------------------------------------------------
(* Actions (interactions.py) and Agent._parse_llm_response *)

\* an action object: its class, its duration_minutes and, for MoveToAction,
\* its target_location
Action(kind, duration, target) == [kind |-> kind, duration |-> duration, target |-> target]

\* WaitAction(duration_minutes=1)
FallbackWait == Action("Wait", 1, "none")

\* ACTION_MAPPING, with each class's duration_minutes default and lower bound
\* (Field(default=..., ge=...)) and its required fields (Field(...))
ACTION_MAPPING ==
    [Wait           |-> [default |-> 1,   ge |-> 1,  required |-> {}],
     Speak          |-> [default |-> 2,   ge |-> 1,  required |-> {"message"}],
     MoveTo         |-> [default |-> 5,   ge |-> 1,  required |-> {"target_location"}],
     UseObject      |-> [default |-> 5,   ge |-> 1,  required |-> {"object_name"}],
     Gardening      |-> [default |-> 30,  ge |-> 10, required |-> {}],
     Walk           |-> [default |-> 20,  ge |-> 5,  required |-> {}],
     Listen         |-> [default |-> 3,   ge |-> 1,  required |-> {"target_agent_id"}],
     HangOut        |-> [default |-> 30,  ge |-> 10, required |-> {"target_agent_ids"}],
     Eat            |-> [default |-> 15,  ge |-> 5,  required |-> {}],
     Sleep          |-> [default |-> 480, ge |-> 60, required |-> {}],
     Shower         |-> [default |-> 10,  ge |-> 5,  required |-> {}],
     Buy            |-> [default |-> 10,  ge |-> 3,  required |-> {"item_name"}],
     TakeBus        |-> [default |-> 20,  ge |-> 10, required |-> {"destination"}],
     LeaveCommunity |-> [default |-> 5,   ge |-> 1,  required |-> {}]]

\* The decision provider's outputs, by what _parse_llm_response reads of them:
\*   fence   "json": the text is wrapped in ```json ... ```; "plain": in ``` ... ```
\*   text    what json.loads makes of the unwrapped text: "garbage" is not JSON,
\*           "array" is JSON but no object, "object" is a JSON object
\*   action_name   the object's "action_name" ("null": the key is missing)
\*   nested  "flat": the parameters are the object's other keys; "map": they
\*           are the object under "parameters"; "null": "parameters" is null
\*   has_duration, duration   the duration_minutes parameter, when given
\*   target  the target_location parameter ("absent": not given)
LLMOutputs ==
    {o \in [fence : {"none", "json", "plain"},
            text : {"garbage", "array", "object"},
            action_name : {"Wait", "MoveTo", "Sleep", "Work", "null"},
            nested : {"flat", "map", "null"},
            has_duration : BOOLEAN,
            duration : {0, 1, 7, 60},
            target : {"absent", "Park", "Cafe", "Mars"}] :
        ~o.has_duration => o.duration = 0}

\* the parameter names the output gives, other than duration_minutes
GivenFields(out) == IF out.target = "absent" THEN {} ELSE {"target_location"}

\* response_content.strip("```json")... and json.loads: the kind of value
\* loaded, or "JSONDecodeError". Only a text that starts with ```json is unwrapped
Loads(out) ==
    IF out.fence = "plain" THEN "JSONDecodeError"
    ELSE IF out.text = "garbage" THEN "JSONDecodeError"
    ELSE out.text

\* action_class(**parameters): the instance, or the exception pydantic or the
\* call raises
Construct(name, out) ==
    LET spec == ACTION_MAPPING[name]
    IN  IF out.nested = "null"
        THEN [exc |-> "TypeError", action |-> FallbackWait]
        ELSE IF ~(spec.required \subseteq GivenFields(out))
        THEN [exc |-> "ValidationError", action |-> FallbackWait]
        ELSE IF out.has_duration /\ out.duration < spec.ge
        THEN [exc |-> "ValidationError", action |-> FallbackWait]
        ELSE [exc |-> "none",
              action |-> Action(name,
                                IF out.has_duration THEN out.duration ELSE spec.default,
                                IF name = "MoveTo" THEN out.target ELSE "none")]

\* the try body of _parse_llm_response: the exception raised inside it (or
\* "none") and the action it returns. An unknown action_name and a failed
\* construction return WaitAction(duration_minutes=1) from inside the body
ParseBody(out) ==
    IF Loads(out) = "JSONDecodeError"
    THEN [exc |-> "JSONDecodeError", action |-> FallbackWait]
    ELSE IF Loads(out) # "object"
    THEN [exc |-> "AttributeError", action |-> FallbackWait]
    ELSE IF out.action_name \notin DOMAIN ACTION_MAPPING
    THEN [exc |-> "none", action |-> FallbackWait]
    ELSE IF Construct(out.action_name, out).exc # "none"
    THEN [exc |-> "none", action |-> FallbackWait]
    ELSE Construct(out.action_name, out)

\* the handlers without "except Exception": only json.JSONDecodeError is caught
ParseHandlersJsonOnly == {"JSONDecodeError"}

\* the exception classes the handlers "except json.JSONDecodeError" and
\* "except Exception" of _parse_llm_response catch
ParseHandlers == {"JSONDecodeError", "AttributeError", "TypeError", "ValidationError"}

\* Agent._parse_llm_response(response_content): the exception that leaves the
\* method (or "none") and the action returned
_parse_llm_response(out) ==
    IF ParseBody(out).exc \in ParseHandlers
    THEN [exc |-> "none", action |-> FallbackWait]
    ELSE ParseBody(out)

NoParse == [exc |-> "none", action |-> Action("None", 0, "none")]

\* a caller hands one output to _parse_llm_response
Parse ==
    /\ parsed = NoParse
    /\ parsed' = _parse_llm_response(llm_output)
    /\ UNCHANGED <<timeline_vars, agent_vars, ledger_vars, llm_output>>
    /\ UNCHANGED scale_vars
    /\ UNCHANGED map_vars
    /\ UNCHANGED <<life_vars, reg_vars, memory_vars>>

----------------------------------------------------------------------------
(* WorldState: the occupancy ledger *)

\* the agent ids that take jobs
Workers == {"a1", "a2", "a3"}

\* Location.available_jobs of the loaded map: per location the declared
\* (job type, capacity) pairs. "Mars" is no location of the map
WorldJobs ==
    [Cafe |-> {<<"barista", 1>>},
     Supermarket |-> {<<"cashier", 2>>, <<"barista", 0>>},
     Park |-> {}]

LocationNames == {"Cafe", "Supermarket", "Park", "Mars"}

JobTypes == {"barista", "cashier"}

Job(location_name, job_type) == [location |-> location_name, job |-> job_type]

\* location.available_jobs.get(job_type, 0)
MaxWorkers(location_name, job_type) ==
    IF \E p \in WorldJobs[location_name] : p[1] = job_type
    THEN (CHOOSE p \in WorldJobs[location_name] : p[1] = job_type)[2]
    ELSE 0

\* the loop of is_job_available that counts the occupants
CurrentWorkers(jobs, location_name, job_type) ==
    Cardinality({a \in DOMAIN jobs : jobs[a] = Job(location_name, job_type)})

\* current_workers <= max_workers, where the code has <
is_job_available_le(jobs, location_name, job_type) ==
    IF location_name \notin DOMAIN WorldJobs THEN FALSE
    ELSE IF WorldJobs[location_name] = {} THEN FALSE
    ELSE IF MaxWorkers(location_name, job_type) = 0 THEN FALSE
    ELSE CurrentWorkers(jobs, location_name, job_type) <= MaxWorkers(location_name, job_type)

\* is_job_available that looks at the declared capacity alone
is_job_available_declared(jobs, location_name, job_type) ==
    IF location_name \notin DOMAIN WorldJobs THEN FALSE
    ELSE MaxWorkers(location_name, job_type) > 0

\* WorldState.is_job_available
is_job_available(jobs, location_name, job_type) ==
    IF location_name \notin DOMAIN WorldJobs THEN FALSE
    ELSE IF WorldJobs[location_name] = {} THEN FALSE
    ELSE IF MaxWorkers(location_name, job_type) = 0 THEN FALSE
    ELSE CurrentWorkers(jobs, location_name, job_type) < MaxWorkers(location_name, job_type)

\* assign_job_to_agent without its first test (agent_id in self.occupied_jobs)
assign_job_to_agent_no_holder_test(jobs, a, location_name, job_type) ==
    IF is_job_available(jobs, location_name, job_type)
    THEN [ret |-> TRUE, jobs |-> [jobs EXCEPT ![a] = Job(location_name, job_type)]]
    ELSE [ret |-> FALSE, jobs |-> jobs]

\* WorldState.assign_job_to_agent: the value returned and the ledger afterwards
assign_job_to_agent(jobs, a, location_name, job_type) ==
    IF jobs[a] # NoJob
    THEN [ret |-> FALSE, jobs |-> jobs]
    ELSE IF is_job_available(jobs, location_name, job_type)
    THEN [ret |-> TRUE, jobs |-> [jobs EXCEPT ![a] = Job(location_name, job_type)]]
    ELSE [ret |-> FALSE, jobs |-> jobs]

\* the record of the last call on the ledger: an assign (agent, location, job),
\* a release (released) or a query (location, job alone), what it returned and
\* the ledger before it
NoAssign == [agent |-> "none", released |-> "none", location |-> "none", job |-> "none",
             ret |-> FALSE, before |-> [a \in Workers |-> NoJob]]

\* a caller assigns a job: world_state.assign_job_to_agent(agent, location, job_type, world_map)
Assign ==
    /\ \E a \in Workers, l \in LocationNames, j \in JobTypes :
          LET r == assign_job_to_agent(occupied_jobs, a, l, j)
          IN  /\ occupied_jobs' = r.jobs
              /\ assign_ret' = [agent |-> a, released |-> "none", location |-> l,
                                job |-> j, ret |-> r.ret, before |-> occupied_jobs]
    /\ UNCHANGED <<timeline_vars, agent_vars, parse_vars>>
    /\ UNCHANGED scale_vars
    /\ UNCHANGED map_vars
    /\ UNCHANGED <<life_vars, reg_vars, memory_vars>>

\* a caller releases a job: world_state.remove_agent_from_job(agent_id)
Release ==
    /\ \E a \in Workers :
          /\ occupied_jobs' = remove_agent_from_job(occupied_jobs, a)
          /\ assign_ret' = [NoAssign EXCEPT !.released = a, !.before = occupied_jobs]
    /\ UNCHANGED <<timeline_vars, agent_vars, parse_vars>>
    /\ UNCHANGED scale_vars
    /\ UNCHANGED map_vars
    /\ UNCHANGED <<life_vars, reg_vars, memory_vars>>

\* a caller asks world_state.is_job_available(location_name, job_type, world_map)
IsJobAvailable ==
    /\ \E l \in LocationNames, j \in JobTypes :
          assign_ret' = [NoAssign EXCEPT !.location = l, !.job = j,
                                         !.ret = is_job_available(occupied_jobs, l, j),
                                         !.before = occupied_jobs]
    /\ UNCHANGED occupied_jobs
    /\ UNCHANGED <<timeline_vars, agent_vars, parse_vars>>
    /\ UNCHANGED scale_vars
    /\ UNCHANGED map_vars
    /\ UNCHANGED <<life_vars, reg_vars, memory_vars>>

----------------------------------------------------------------------------
(* WorldMap: loading the connections, and the queries on them *)

\* a Python dict as the sequence of its <<key, value>> items, in insertion order
Keys(d) == {d[i][1] : i \in 1..Len(d)}

Get(d, k) == d[CHOOSE i \in 1..Len(d) : d[i][1] = k][2]

\* d[k] = v
Put(d, k, v) ==
    IF k \in Keys(d)
    THEN [i \in 1..Len(d) |-> IF d[i][1] = k THEN <<k, v>> ELSE d[i]]
    ELSE Append(d, <<k, v>>)

\* d.update(other)
RECURSIVE Update(_, _)
Update(d, other) ==
    IF other = <<>> THEN d
    ELSE Update(Put(d, other[1][1], other[1][2]), Tail(other))

\* the names of WorldMap._locations after the locations file was loaded;
\* "X" is a name the connections file uses that is no location
MapLocations == {"A", "B", "C"}

NameOrder == <<"A", "B", "C", "X">>

\* the connections a file may declare, and the minutes it may give them
DeclarablePairs ==
    {<<"A", "B">>, <<"B", "A">>, <<"B", "C">>, <<"A", "C">>, <<"C", "C">>,
     <<"A", "X">>, <<"X", "B">>}

DeclaredTimes(pair) ==
    IF pair \in {<<"A", "X">>, <<"X", "B">>} THEN {"-", "1"}
    ELSE IF pair = <<"C", "C">> THEN {"-", "3"}
    ELSE {"-", "0", "1", "3"}

Minutes == [x \in {"0", "1", "3"} |-> IF x = "0" THEN 0 ELSE IF x = "1" THEN 1 ELSE 3]

\* the connections file that declares decl[pair] minutes for each pair ("-":
\* the pair is not in the file), its names in the order of NameOrder
RECURSIVE RawInner(_, _, _)
RawInner(decl, start, j) ==
    IF j > Len(NameOrder) THEN <<>>
    ELSE (IF <<start, NameOrder[j]>> \in DeclarablePairs
             /\ decl[<<start, NameOrder[j]>>] # "-"
          THEN <<(<<NameOrder[j], Minutes[decl[<<start, NameOrder[j]>>]]>>)>>
          ELSE <<>>)
         \o RawInner(decl, start, j + 1)

RECURSIVE RawFile(_, _)
RawFile(decl, i) ==
    IF i > Len(NameOrder) THEN <<>>
    ELSE (IF RawInner(decl, NameOrder[i], 1) # <<>>
          THEN <<(<<NameOrder[i], RawInner(decl, NameOrder[i], 1)>>)>>
          ELSE <<>>)
         \o RawFile(decl, i + 1)

RawFiles ==
    {RawFile(decl, 1) :
        decl \in {f \in [DeclarablePairs -> {"-", "0", "1", "3"}] :
                     \A pr \in DeclarablePairs : f[pr] \in DeclaredTimes(pr)}}

\* the inner loop of load_map_from_files with "time < 0" for "time <= 0"
ValidDestinations_lt(destinations) ==
    SelectSeq(destinations, LAMBDA it : it[1] \in MapLocations /\ ~(it[2] < 0))

\* the inner loop of load_map_from_files with no test of end_node
ValidDestinations_any_end(destinations) ==
    SelectSeq(destinations, LAMBDA it : ~(it[2] <= 0))

\* load_map_from_files, the inner loop over one start node's destinations:
\* valid_destinations
ValidDestinations(destinations) ==
    SelectSeq(destinations, LAMBDA it : it[1] \in MapLocations /\ ~(it[2] <= 0))

\* load_map_from_files, the loop over raw_connections from its i-th item on:
\* processed_connections
RECURSIVE ProcessConnections(_, _)
ProcessConnections(raw, i) ==
    IF i > Len(raw) THEN <<>>
    ELSE (IF raw[i][1] \notin MapLocations THEN <<>>
          ELSE IF ValidDestinations(raw[i][2]) = <<>> THEN <<>>
          ELSE <<(<<raw[i][1], ValidDestinations(raw[i][2])>>)>>)
         \o ProcessConnections(raw, i + 1)

\* the directed edges of a dict of dicts, in the order items() walks them
RECURSIVE Edges(_)
Edges(conns) ==
    IF conns = <<>> THEN <<>>
    ELSE [j \in 1..Len(conns[1][2]) |->
             <<conns[1][1], conns[1][2][j][1], conns[1][2][j][2]>>]
         \o Edges(Tail(conns))

HasEdge(conns, a, b) == a \in Keys(conns) /\ b \in Keys(Get(conns, a))

\* _ensure_bidirectional_connections, the first loop from the i-th edge of
\* current_connections on: st.conns is self._connections, st.add is
\* connections_to_add
RECURSIVE PlanReverse(_, _, _)
PlanReverse(edges, i, st) ==
    IF i > Len(edges) THEN st
    ELSE LET start_node == edges[i][1]
             end_node == edges[i][2]
             time == edges[i][3]
         IN  IF ~HasEdge(st.conns, end_node, start_node)
                /\ ~HasEdge(st.add, end_node, start_node)
             THEN PlanReverse(edges, i + 1,
                     [conns |-> IF end_node \notin Keys(st.conns)
                                THEN Put(st.conns, end_node, <<>>) ELSE st.conns,
                      add |-> Put(st.add, end_node,
                                  Put(IF end_node \in Keys(st.add)
                                      THEN Get(st.add, end_node) ELSE <<>>,
                                      start_node, time))])
             ELSE PlanReverse(edges, i + 1, st)

\* _ensure_bidirectional_connections, the second loop:
\* self._connections[start_node].update(destinations)
RECURSIVE ApplyReverse(_, _)
ApplyReverse(conns, add) ==
    IF add = <<>> THEN conns
    ELSE ApplyReverse(Put(conns, add[1][1], Update(Get(conns, add[1][1]), add[1][2])),
                      Tail(add))

\* WorldMap._ensure_bidirectional_connections: self._connections afterwards
_ensure_bidirectional_connections(conns) ==
    LET st == PlanReverse(Edges(conns), 1, [conns |-> conns, add |-> <<>>])
    IN  ApplyReverse(st.conns, st.add)

\* WorldMap.is_valid_location
is_valid_location(name) == name \in MapLocations

\* WorldMap.get_travel_time: the minutes, or -1 for None
get_travel_time(conns, start_name, end_name) ==
    IF ~is_valid_location(start_name) \/ ~is_valid_location(end_name) THEN -1
    ELSE IF start_name = end_name THEN 0
    ELSE IF HasEdge(conns, start_name, end_name) THEN Get(Get(conns, start_name), end_name)
    ELSE -1

\* load_map_from_files, from the reading of the connections file on
LoadMap ==
    /\ ~map_loaded
    /\ connections' = _ensure_bidirectional_connections(ProcessConnections(raw_connections, 1))
    /\ map_loaded' = TRUE
    /\ UNCHANGED <<raw_connections, path_call>>
    /\ UNCHANGED <<timeline_vars, scale_vars, agent_vars, ledger_vars, parse_vars>>
    /\ UNCHANGED <<life_vars, reg_vars, memory_vars>>

\* float("inf"), above every distance of the model
Inf == 1000000

\* the place of a name in the order Python gives strings
NameRank(name) == CHOOSE i \in 1..Len(NameOrder) : NameOrder[i] = name

\* a heappop that takes the entry with the largest distance
HeapPop_largest(pq) ==
    CHOOSE e \in pq :
        \A o \in pq : e[1] > o[1] \/ (e[1] = o[1] /\ NameRank(e[2]) <= NameRank(o[2]))

\* heapq.heappop(pq): the smallest (distance, name) tuple
HeapPop(pq) ==
    CHOOSE e \in pq :
        \A o \in pq : e[1] < o[1] \/ (e[1] = o[1] /\ NameRank(e[2]) <= NameRank(o[2]))

\* the three assignments under "if new_distance < distances[neighbor]",
\* without the one to previous_nodes
Relax_no_previous(st, current_node, neighbor, new_distance) ==
    [distances |-> [st.distances EXCEPT ![neighbor] = new_distance],
     previous_nodes |-> st.previous_nodes,
     pq |-> st.pq \cup {<<new_distance, neighbor>>},
     exc |-> "none"]

\* find_path: the three assignments under "if new_distance < distances[neighbor]"
Relax(st, current_node, neighbor, new_distance) ==
    [distances |-> [st.distances EXCEPT ![neighbor] = new_distance],
     previous_nodes |-> [st.previous_nodes EXCEPT ![neighbor] = current_node],
     pq |-> st.pq \cup {<<new_distance, neighbor>>},
     exc |-> "none"]

\* find_path: the loop over self._connections[current_node].items() from its
\* j-th item on. distances[neighbor] raises KeyError for a name that is no location
RECURSIVE RelaxNeighbors(_, _, _, _, _)
RelaxNeighbors(nb, j, current_node, current_distance, st) ==
    IF j > Len(nb) THEN st
    ELSE LET neighbor == nb[j][1]
             new_distance == current_distance + nb[j][2]
         IN  IF neighbor \notin DOMAIN st.distances
             THEN [st EXCEPT !.exc = "KeyError"]
             ELSE IF new_distance < st.distances[neighbor]
             THEN RelaxNeighbors(nb, j + 1, current_node, current_distance,
                                 Relax(st, current_node, neighbor, new_distance))
             ELSE RelaxNeighbors(nb, j + 1, current_node, current_distance, st)

\* find_path: the loop that walks previous_nodes back from end_name
RECURSIVE PathBack(_, _)
PathBack(previous_nodes, temp_node) ==
    IF temp_node = "None" THEN <<>>
    ELSE <<temp_node>> \o PathBack(previous_nodes, previous_nodes[temp_node])

\* list(reversed(path))
Reversed(path) == [i \in 1..Len(path) |-> path[Len(path) + 1 - i]]

\* what find_path gives back: the exception raised (or "none"), whether a
\* path was returned, the path and the cost
PathResult(exc, found, path, cost) ==
    [exc |-> exc, found |-> found, path |-> path, cost |-> cost]

NoPath == PathResult("none", FALSE, <<>>, 0)

\* find_path: the loop "while pq"
RECURSIVE Dijkstra(_, _, _)
Dijkstra(conns, end_name, st) ==
    IF st.pq = {} THEN NoPath
    ELSE LET e == HeapPop(st.pq)
             current_distance == e[1]
             current_node == e[2]
             rest == [st EXCEPT !.pq = st.pq \ {e}]
         IN  IF current_distance > st.distances[current_node]
             THEN Dijkstra(conns, end_name, rest)
             ELSE IF current_node = end_name
             THEN IF st.distances[end_name] = Inf THEN NoPath
                  ELSE PathResult("none", TRUE,
                                  Reversed(PathBack(st.previous_nodes, end_name)),
                                  st.distances[end_name])
             ELSE IF current_node \in Keys(conns)
             THEN LET r == RelaxNeighbors(Get(conns, current_node), 1, current_node,
                                          current_distance, rest)
                  IN  IF r.exc # "none" THEN PathResult(r.exc, FALSE, <<>>, 0)
                      ELSE Dijkstra(conns, end_name, r)
             ELSE Dijkstra(conns, end_name, rest)

\* WorldMap.find_path(start_name, end_name)
find_path(conns, start_name, end_name) ==
    IF ~is_valid_location(start_name) \/ ~is_valid_location(end_name) THEN NoPath
    ELSE IF start_name = end_name THEN PathResult("none", TRUE, <<start_name>>, 0)
    ELSE Dijkstra(conns, end_name,
                  [distances |-> [loc \in MapLocations |->
                                     IF loc = start_name THEN 0 ELSE Inf],
                   previous_nodes |-> [loc \in MapLocations |-> "None"],
                   pq |-> {<<0, start_name>>},
                   exc |-> "none"])

NoPathCall == [start |-> "none", end |-> "none", ret |-> NoPath]

\* a caller asks for a path on the loaded map
FindPath ==
    /\ map_loaded
    /\ \E start_name \in MapLocations \cup {"X"}, end_name \in MapLocations \cup {"X"} :
          path_call' = [start |-> start_name, end |-> end_name,
                        ret |-> find_path(connections, start_name, end_name)]
    /\ UNCHANGED <<raw_connections, connections, map_loaded>>
    /\ UNCHANGED <<timeline_vars, scale_vars, agent_vars, ledger_vars, parse_vars>>
    /\ UNCHANGED <<life_vars, reg_vars, memory_vars>>

----------------------------------------------------------------------------
(* The memory system (memory.py) *)

\* recency_decay_factor of MemorySystem.__init__, in hundredths
recency_decay_factor == 99

\* MemoryRecord(agent_id=..., timestamp=..., type=..., content=...) as the
\* store keeps it; memory_id stands for the uuid4, importance has its default
MemoryRecord(memory_id, agent_id, timestamp, content) ==
    [memory_id |-> memory_id, agent_id |-> agent_id, timestamp |-> timestamp,
     content |-> content, importance |-> 5]

\* _calculate_importance(content) of a MemorySystem without importance_llm;
\* a content is written as the keyword it holds
_calculate_importance(content) ==
    IF content = "insight" THEN 8
    ELSE IF content = "mentor suggests" THEN 10
    ELSE IF content = "asked:" THEN 6
    ELSE IF content = "observed:" THEN 4
    ELSE 5

\* add_memory(agent_id, memory_record) on the agent's collection docs, where
\* fails tells whether the store raises: the collection afterwards and the
\* exception that leaves the call
add_memory(docs, memory_record, fails) ==
    IF memory_record.content = "" THEN [docs |-> docs, exc |-> "none"]
    ELSE IF fails
    THEN \* except Exception: logged
         [docs |-> docs, exc |-> "none"]
    ELSE [docs |-> docs \cup {[memory_record EXCEPT !.importance =
                                  _calculate_importance(memory_record.content)]},
          exc |-> "none"]

\* the relevance score the store returns for a document and a query, in tenths
RelevanceScore(query, memory_id) == ((memory_id * query) % 5) * 2 + 1

\* chroma_collection.asimilarity_search_with_score(query_text, k): the k
\* documents of the collection nearest to the query, nearest first, each with
\* its score
RECURSIVE asimilarity_search_with_score(_, _, _)
asimilarity_search_with_score(docs, query, k) ==
    IF docs = {} \/ k <= 0 THEN <<>>
    ELSE LET nearest == CHOOSE d \in docs : \A e \in docs :
                            \/ RelevanceScore(query, d.memory_id)
                                  > RelevanceScore(query, e.memory_id)
                            \/ /\ RelevanceScore(query, d.memory_id)
                                     = RelevanceScore(query, e.memory_id)
                               /\ d.memory_id <= e.memory_id
         IN  <<[doc |-> nearest,
                relevance_score |-> RelevanceScore(query, nearest.memory_id)]>>
             \o asimilarity_search_with_score(docs \ {nearest}, query, k - 1)

RECURSIVE Pow(_, _)
Pow(b, n) == IF n = 0 THEN 1 ELSE b * Pow(b, n - 1)

\* whether combined_score = relevance_score * (importance / 10.0) *
\* math.pow(recency_decay_factor, hours_ago) of x is greater than that of y at
\* the time now (timestamps in minutes; now itself cancels out). Exact where
\* the two timestamps are a whole number of hours apart, and where they are
\* less than an hour apart (then the greater product of the integers decides:
\* two such products up to 100 differ by a factor of at least 100/99, more
\* than the decay of an hour)
ScoreGreater(x, y, now) ==
    LET wx == x.relevance_score * x.doc.importance
        wy == y.relevance_score * y.doc.importance
        \* how many minutes older than x the document y is
        older == x.doc.timestamp - y.doc.timestamp
    IN  IF older % 60 = 0
        THEN IF older >= 0
             THEN wx * Pow(100, older \div 60) > wy * Pow(recency_decay_factor, older \div 60)
             ELSE wx * Pow(recency_decay_factor, (-older) \div 60)
                     > wy * Pow(100, (-older) \div 60)
        ELSE wx > wy \/ (wx = wy /\ older > 0)

\* list.sort(key=combined_score, reverse=True) done by insertion: x goes
\* before the first element of a smaller score, so equal scores keep their order
RECURSIVE InsertByScore(_, _, _)
InsertByScore(sorted, x, now) ==
    IF sorted = <<>> THEN <<x>>
    ELSE IF ScoreGreater(x, Head(sorted), now) THEN <<x>> \o sorted
    ELSE <<Head(sorted)>> \o InsertByScore(Tail(sorted), x, now)

\* _apply_rri_weighting that leaves the results in the order of the search
_apply_rri_weighting_unsorted(results_with_scores, now) == results_with_scores

\* _apply_rri_weighting(results_with_scores, current_time): the results in
\* order of non-increasing combined score
RECURSIVE _apply_rri_weighting(_, _)
_apply_rri_weighting(results_with_scores, now) ==
    IF results_with_scores = <<>> THEN <<>>
    ELSE InsertByScore(
             _apply_rri_weighting(
                 SubSeq(results_with_scores, 1, Len(results_with_scores) - 1), now),
             results_with_scores[Len(results_with_scores)], now)

\* retrieve_memories that has no except clause around the search
retrieve_memories_no_handler(docs, query, now, top_k, fails) ==
    LET results_with_scores == asimilarity_search_with_score(docs, query, top_k * 2)
        weighted == _apply_rri_weighting(results_with_scores, now)
        kept == SubSeq(weighted, 1, IF Len(weighted) < top_k THEN Len(weighted) ELSE top_k)
    IN  IF fails THEN [result |-> <<>>, candidates |-> <<>>, exc |-> "storage"]
        ELSE [result |-> [i \in 1..Len(kept) |-> kept[i].doc],
              candidates |-> results_with_scores, exc |-> "none"]

\* retrieve_memories(agent_id, query_text, current_time, top_k) on the agent's
\* collection docs, where fails tells whether the store raises: the records
\* returned, the candidates the search gave and the exception that leaves the
\* call. Documents written by add_memory convert back without error
retrieve_memories(docs, query, now, top_k, fails) ==
    LET results_with_scores == asimilarity_search_with_score(docs, query, top_k * 2)
        weighted == _apply_rri_weighting(results_with_scores, now)
        kept == SubSeq(weighted, 1, IF Len(weighted) < top_k THEN Len(weighted) ELSE top_k)
    IN  IF fails
        THEN \* except Exception: logged, the empty retrieved_records returned
             [result |-> <<>>, candidates |-> <<>>, exc |-> "none"]
        ELSE IF results_with_scores = <<>>
        THEN [result |-> <<>>, candidates |-> <<>>, exc |-> "none"]
        ELSE [result |-> [i \in 1..Len(kept) |-> kept[i].doc],
              candidates |-> results_with_scores, exc |-> "none"]

NoMemoryCall ==
    [op |-> "none", agent |-> "None", content |-> "", top_k |-> 0, now |-> 0,
     failed |-> FALSE, candidates |-> <<>>, result |-> <<>>, exc |-> "none"]

\* the memory_id of the next record: a uuid4 no document of docs has
NewMemoryId(docs) ==
    IF docs = {} THEN 1
    ELSE 1 + (CHOOSE n \in {d.memory_id : d \in docs} :
                 \A d \in docs : d.memory_id <= n)

\* the record of a call of add_memory
AddCall(a, memory_record, fails, w) ==
    [NoMemoryCall EXCEPT !.op = "add_memory", !.agent = a,
                         !.content = memory_record.content,
                         !.now = memory_record.timestamp, !.failed = fails,
                         !.exc = w.exc]

\* the record of a call of retrieve_memories
RetrieveCall(a, now, top_k, fails, r) ==
    [NoMemoryCall EXCEPT !.op = "retrieve_memories", !.agent = a, !.top_k = top_k,
                         !.now = now, !.failed = fails, !.candidates = r.candidates,
                         !.result = r.result, !.exc = r.exc]

\* a caller awaits add_memory for agent a1 with a record of the current time
AddMemory ==
    /\ ops < MaxOps
    /\ ops' = ops + 1
    /\ \E content \in {"", "mentor suggests", "action"}, fails \in BOOLEAN :
          LET memory_record == MemoryRecord(NewMemoryId(store["a1"]), "a1",
                                            current_time, content)
              w == add_memory(store["a1"], memory_record, fails)
          IN  /\ store' = [store EXCEPT !["a1"] = w.docs]
              /\ memory_call' = AddCall("a1", memory_record, fails, w)
    /\ UNCHANGED <<internal_state, relationships, last_exec>>
    /\ UNCHANGED <<timeline_vars, scale_vars, map_vars, agent_vars, ledger_vars,
                   parse_vars, reg_vars>>

\* a caller awaits retrieve_memories for agent a1 at the current time
RetrieveMemories ==
    /\ ops < MaxOps
    /\ ops' = ops + 1
    /\ \E query \in 1..3, top_k \in {1, 2}, fails \in BOOLEAN :
          memory_call' = RetrieveCall("a1", current_time, top_k, fails,
                            retrieve_memories(store["a1"], query, current_time,
                                              top_k, fails))
    /\ UNCHANGED <<internal_state, relationships, last_exec, store>>
    /\ UNCHANGED <<timeline_vars, scale_vars, map_vars, agent_vars, ledger_vars,
                   parse_vars, reg_vars>>

----------------------------------------------------------------------------
(* Agent.think_and_act and the registry's operations *)

NoCycle == [pc |-> "none", start |-> -1, plan |-> Action("None", 0, "none"),
            ended |-> FALSE, raised |-> {}]

NoIdleCall == [agent |-> "none", time |-> -1, act |-> NoAction, exc |-> "none",
               ret |-> FALSE, after |-> NoAction]

\* LOCATIONS of interactions.py, as far as the model's agents move
LOCATIONS == {"Park", "Cafe"}

\* the decision provider's outputs the cycles of the model receive: no JSON, an
\* unknown action, a wait, a sleep, and moves to the agent's own place, to
\* another place and to a place that is not in LOCATIONS
Output(text, action_name, has_duration, duration, target) ==
    [fence |-> "none", text |-> text, action_name |-> action_name, nested |-> "flat",
     has_duration |-> has_duration, duration |-> duration, target |-> target]

CycleOutputs ==
    {Output("garbage", "null", FALSE, 0, "absent"),
     Output("object", "Work", TRUE, 7, "absent"),
     Output("object", "Wait", TRUE, 7, "absent"),
     Output("object", "Sleep", TRUE, 60, "absent"),
     Output("object", "MoveTo", FALSE, 0, "Park"),
     Output("object", "MoveTo", FALSE, 0, "Cafe"),
     Output("object", "MoveTo", FALSE, 0, "Mars")}

\* action_plan.execute(agent, ...) for the classes the model's cycles run: the
\* duration_minutes the action has afterwards. MoveToAction and SleepAction
\* cut it to 1 when the action cannot take place; WaitAction does nothing
ExecuteDuration(plan, location) ==
    IF plan.kind = "MoveTo"
    THEN IF location = plan.target \/ plan.target \notin LOCATIONS THEN 1
         ELSE plan.duration
    ELSE IF plan.kind = "Sleep"
    THEN IF location \in {"Apartment_1A", "Apartment_1B"} THEN plan.duration ELSE 1
    ELSE plan.duration

\* step 5a of think_and_act, the isinstance chain that picks the log line: the
\* exception it raises for an action of this class
RecordExc(kind) ==
    IF kind = "MoveTo" /\ HasActionsAttr("MoveToAction") THEN "none"
    ELSE IF kind = "Speak" /\ HasActionsAttr("SpeakAction") THEN "none"
    ELSE IF kind = "UseObject" /\ HasActionsAttr("UseObjectAction") THEN "none"
    ELSE IF ~HasActionsAttr("WorkAction") THEN "AttributeError"
    ELSE IF kind = "Work" THEN "none"
    ELSE IF ~HasActionsAttr("BuyItemAction") THEN "AttributeError"
    ELSE "none"

\* think_and_act from "try: await action_plan.execute(...)" to its first
\* suspension or its end, for the cycle agent a started at t with action plan,
\* where some steps in raisedBefore raised already
RunAction(a, t, plan, raisedBefore) ==
    LET d == ExecuteDuration(plan, current_location[a])
        act == [kind |-> plan.kind, end_time |-> AddMinutes(t, d)]
    IN  IF agent_cfg[a].memory
        THEN IF RecordExc(plan.kind) # "none"
             THEN \* except Exception: the one-minute wait replaces the action
                  /\ current_action' =
                        [current_action EXCEPT ![a] =
                            [kind |-> "Wait", end_time |-> AddMinutes(t, 1)]]
                  /\ cycle' = [cycle EXCEPT ![a] =
                        [pc |-> "none", start |-> t, plan |-> plan, ended |-> TRUE,
                         raised |-> raisedBefore \cup {"execution"}]]
                  /\ error_log' = error_log \cup
                        {[site |-> "think_and_act", exc |-> RecordExc(plan.kind)]}
                  /\ UNCHANGED current_location
             ELSE \* await self.memory_system.add_memory(...)
                  /\ current_action' = [current_action EXCEPT ![a] = act]
                  /\ cycle' = [cycle EXCEPT ![a] =
                        [pc |-> "writing", start |-> t,
                         plan |-> [plan EXCEPT !.duration = d], ended |-> FALSE,
                         raised |-> raisedBefore]]
                  /\ UNCHANGED <<current_location, error_log>>
        ELSE /\ current_action' = [current_action EXCEPT ![a] = act]
             /\ cycle' = [cycle EXCEPT ![a] =
                   [pc |-> "none", start |-> t, plan |-> [plan EXCEPT !.duration = d],
                    ended |-> TRUE, raised |-> raisedBefore]]
             /\ current_location' =
                   IF plan.kind = "MoveTo"
                   THEN [current_location EXCEPT ![a] = plan.target]
                   ELSE current_location
             /\ UNCHANGED error_log

\* think_and_act(current_time, world_map, world_state, object_prototypes,
\* agent_registry) from its entry to its first suspension or its end
BeginCycle(a) ==
    LET t == current_time
    IN  IF ~agent_cfg[a].llm \/ ~agent_cfg[a].memory
        THEN RunAction(a, t, FallbackWait, {})
        ELSE \* await self.memory_system.retrieve_memories(...)
             /\ cycle' = [cycle EXCEPT ![a] =
                   [pc |-> "retrieving", start |-> t, plan |-> NoCycle.plan,
                    ended |-> FALSE, raised |-> {}]]
             /\ UNCHANGED <<current_action, current_location, error_log>>

\* a caller awaits think_and_act with its five arguments, for an agent that
\* has no action in progress and no cycle in flight
ThinkAndAct ==
    /\ \E a \in Agents :
          /\ cycle[a].pc = "none"
          /\ current_action[a] = NoAction
          /\ BeginCycle(a)
    /\ UNCHANGED <<start_time, current_time, is_paused, listeners, last_subscribe, loop_pc, last_tick>>
    /\ UNCHANGED <<registry_agents, tasks, last_event, agent_cfg, idle_call>>
    /\ UNCHANGED <<ledger_vars, parse_vars>>
    /\ UNCHANGED scale_vars
    /\ UNCHANGED map_vars
    /\ UNCHANGED <<life_vars, reg_vars, memory_vars>>

\* retrieve_memories returns or raises, and _build_prompt runs: it returns the
\* prompt or raises
Retrieved ==
    /\ \E a \in Agents, query \in 1..3, fails \in BOOLEAN, prompt_ok \in BOOLEAN :
          LET r == retrieve_memories(store[a], query, cycle[a].start, 10, fails)
          IN  /\ cycle[a].pc = "retrieving"
              /\ memory_call' = RetrieveCall(a, cycle[a].start, 10, fails, r)
              /\ IF r.exc # "none"
                 THEN \* no try statement of think_and_act holds the call
                      /\ cycle' = [cycle EXCEPT ![a] =
                            [pc |-> "none", start |-> cycle[a].start,
                             plan |-> NoCycle.plan, ended |-> TRUE,
                             raised |-> {"retrieve"}]]
                      /\ UNCHANGED error_log
                 ELSE IF prompt_ok
                 THEN /\ cycle' = [cycle EXCEPT ![a].pc = "deciding"]
                      /\ UNCHANGED error_log
                 ELSE \* except Exception: ... return
                      /\ cycle' = [cycle EXCEPT ![a] =
                            [pc |-> "none", start |-> cycle[a].start,
                             plan |-> FallbackWait, ended |-> TRUE,
                             raised |-> {"prompt"}]]
                      /\ error_log' = error_log \cup
                            {[site |-> "think_and_act", exc |-> "prompt"]}
    /\ UNCHANGED <<start_time, current_time, is_paused, listeners, last_subscribe, loop_pc, last_tick>>
    /\ UNCHANGED <<registry_agents, tasks, last_event, current_action, current_location,
                   agent_cfg, idle_call>>
    /\ UNCHANGED <<ledger_vars, parse_vars>>
    /\ UNCHANGED scale_vars
    /\ UNCHANGED map_vars
    /\ UNCHANGED <<life_vars, reg_vars, store>>

\* llm.ainvoke returns or raises: the action plan, and the rest of the cycle
\* to its next suspension
Decided ==
    /\ \E a \in Agents, r \in {"raise", "no_content", "content"}, o \in CycleOutputs :
          /\ cycle[a].pc = "deciding"
          /\ r # "content" => o = CHOOSE x \in CycleOutputs : TRUE
          /\ IF r = "raise"
             THEN RunAction(a, cycle[a].start, FallbackWait, {"provider"})
             ELSE IF r = "no_content"
             THEN RunAction(a, cycle[a].start, FallbackWait, {})
             ELSE IF _parse_llm_response(o).exc # "none"
             THEN RunAction(a, cycle[a].start, FallbackWait, {"parse"})
             ELSE RunAction(a, cycle[a].start, _parse_llm_response(o).action, {})
    /\ UNCHANGED <<start_time, current_time, is_paused, listeners, last_subscribe, loop_pc, last_tick>>
    /\ UNCHANGED <<registry_agents, tasks, last_event, agent_cfg, idle_call>>
    /\ UNCHANGED <<ledger_vars, parse_vars>>
    /\ UNCHANGED scale_vars
    /\ UNCHANGED map_vars
    /\ UNCHANGED <<life_vars, reg_vars, memory_vars>>

\* add_memory returns or raises; after it a move sets the agent's location,
\* and the cycle ends
Written ==
    /\ \E a \in Agents, fails \in BOOLEAN :
          LET new_memory == MemoryRecord(NewMemoryId(store[a]), a, cycle[a].start,
                                         "action")
              w == add_memory(store[a], new_memory, fails)
          IN  /\ cycle[a].pc = "writing"
              /\ store' = [store EXCEPT ![a] = w.docs]
              /\ memory_call' = AddCall(a, new_memory, fails, w)
              /\ IF w.exc # "none"
                 THEN \* except Exception: the one-minute wait replaces the action
                      /\ current_action' =
                            [current_action EXCEPT ![a] =
                                [kind |-> "Wait",
                                 end_time |-> AddMinutes(cycle[a].start, 1)]]
                      /\ cycle' = [cycle EXCEPT ![a].pc = "none", ![a].ended = TRUE,
                                                ![a].raised = @ \cup {"execution"}]
                      /\ error_log' = error_log \cup
                            {[site |-> "think_and_act", exc |-> w.exc]}
                      /\ UNCHANGED current_location
                 ELSE /\ cycle' = [cycle EXCEPT ![a].pc = "none", ![a].ended = TRUE]
                      /\ current_location' =
                            IF cycle[a].plan.kind = "MoveTo"
                            THEN [current_location EXCEPT ![a] = cycle[a].plan.target]
                            ELSE current_location
                      /\ UNCHANGED <<current_action, error_log>>
    /\ UNCHANGED <<start_time, current_time, is_paused, listeners, last_subscribe, loop_pc, last_tick>>
    /\ UNCHANGED <<ledger_vars, parse_vars>>
    /\ UNCHANGED <<registry_agents, tasks, last_event, agent_cfg, idle_call>>
    /\ UNCHANGED scale_vars
    /\ UNCHANGED map_vars
    /\ UNCHANGED <<life_vars, reg_vars>>

\* Agent.agent_id of an Agent object: the two agents of the model, and for
\* each two more objects constructed with the same agent_id
AgentIdOf(agent) ==
    IF agent \in {"a1_second", "a1_third"} THEN "a1"
    ELSE IF agent \in {"a2_second", "a2_third"} THEN "a2"
    ELSE agent

\* register_agent overwrites the entry of an id that is registered already
register_agent_overwrite(keys, objs, agent) ==
    [keys |-> IF AgentIdOf(agent) \in SeqRange(keys) THEN keys
              ELSE Append(keys, AgentIdOf(agent)),
     objs |-> [objs EXCEPT ![AgentIdOf(agent)] = agent],
     exc |-> "none"]

\* AgentRegistry.register_agent(agent) on the dict with the keys keys (in
\* insertion order) and the objects objs: the dict afterwards and the
\* exception raised
register_agent(keys, objs, agent) ==
    IF AgentIdOf(agent) \in SeqRange(keys)
    THEN [keys |-> keys, objs |-> objs, exc |-> "ValueError"]
    ELSE [keys |-> Append(keys, AgentIdOf(agent)),
          objs |-> [objs EXCEPT ![AgentIdOf(agent)] = agent],
          exc |-> "none"]

\* AgentRegistry.get_agent_by_id
get_agent_by_id(agent_id) ==
    IF agent_id \in SeqRange(registry_agents) THEN registry_map[agent_id] ELSE "None"

\* a caller calls register_agent with one of the objects in objects
RegisterAgentOf(objects) ==
    /\ \E agent \in objects :
          LET r == register_agent(registry_agents, registry_map, agent)
          IN  /\ registry_agents' = r.keys
              /\ registry_map' = r.objs
              /\ last_register' = [agent |-> agent, exc |-> r.exc]
    /\ UNCHANGED <<timeline_vars, ledger_vars, parse_vars>>
    /\ UNCHANGED <<tasks, last_event, current_action, current_location, agent_cfg,
                   cycle, idle_call>>
    /\ UNCHANGED scale_vars
    /\ UNCHANGED map_vars
    /\ UNCHANGED <<life_vars, memory_vars>>

\* register_agent with the agents of the model
RegisterAgent == RegisterAgentOf(Agents)

\* register_agent with any object, two of the same id included
RegisterAnyAgent ==
    RegisterAgentOf(Agents \cup {"a1_second", "a1_third", "a2_second", "a2_third"})

\* AgentRegistry._trigger_agent_think(agent, current_time), run as the task
\* on_minute_update created or awaited by a caller: think_and_act is
\* called with current_time alone, and what it raises is caught and logged
TriggerAgentThink ==
    /\ \E a \in SeqRange(registry_agents) :
          /\ Binds(ThinkAndActArgsFromRegistry, ThinkAndActParams) => cycle[a].pc = "none"
          /\ tasks' = tasks \ {a}
          /\ IF Binds(ThinkAndActArgsFromRegistry, ThinkAndActParams)
             THEN BeginCycle(a)
             ELSE /\ error_log' = error_log \cup
                        {[site |-> "_trigger_agent_think", exc |-> "TypeError"]}
                  /\ UNCHANGED <<current_action, current_location, cycle>>
    /\ UNCHANGED <<start_time, current_time, is_paused, listeners, last_subscribe, loop_pc, last_tick>>
    /\ UNCHANGED <<registry_agents, last_event, agent_cfg, idle_call>>
    /\ UNCHANGED <<ledger_vars, parse_vars>>
    /\ UNCHANGED scale_vars
    /\ UNCHANGED map_vars
    /\ UNCHANGED <<life_vars, reg_vars, memory_vars>>

\* a caller calls agent.is_idle(current_time, world_state)
CallIsIdle ==
    /\ \E a \in Agents :
          LET r == is_idle(current_action[a], a, current_time, occupied_jobs)
          IN  /\ current_action' = [current_action EXCEPT ![a] = r.act]
              /\ occupied_jobs' = r.jobs
              /\ idle_call' = [agent |-> a, time |-> current_time,
                               act |-> current_action[a], exc |-> r.exc,
                               ret |-> r.ret, after |-> r.act]
    /\ UNCHANGED <<timeline_vars, parse_vars, assign_ret>>
    /\ UNCHANGED <<registry_agents, tasks, last_event, current_location, agent_cfg, cycle>>
    /\ UNCHANGED scale_vars
    /\ UNCHANGED map_vars
    /\ UNCHANGED <<life_vars, reg_vars, memory_vars>>

----------------------------------------------------------------------------
(* Agent state and relationships, and the actions that change them *)

\* AgentInternalState(): the defaults of state_models.py
AgentInternalState ==
    [mood |-> "NEUTRAL", energy |-> 100, hunger |-> 0, stress_level |-> 0,
     health_status |-> "HEALTHY", social_need |-> 50, hygiene |-> 100,
     laundry_need |-> 0, money |-> 100]

\* RelationshipData(): an entry of Agent._relationships as it is created (a
\* key the dict does not hold is an entry whose present is FALSE)
RelationshipData == [present |-> TRUE, affinity |-> 0, familiarity |-> 0]

\* the agent ids an action or a caller can name: the agents, and an id nobody has
TargetIds == Agents \cup {"a9"}

Max(a, b) == IF a >= b THEN a ELSE b

Min(a, b) == IF a <= b THEN a ELSE b

\* the loop of update_relationship stores what it computes, without the match
\* statement that clamps it
RECURSIVE ApplyChanges_unclamped(_, _)
ApplyChanges_unclamped(rel, changes) ==
    IF changes = <<>> THEN rel
    ELSE LET attribute_name == Head(changes)[1]
             change_value == Head(changes)[2]
         IN  ApplyChanges_unclamped(
                 IF attribute_name = "affinity"
                 THEN [rel EXCEPT !.affinity = rel.affinity + change_value]
                 ELSE IF attribute_name = "familiarity"
                 THEN [rel EXCEPT !.familiarity = rel.familiarity + change_value]
                 ELSE rel,
                 Tail(changes))

\* the loop of update_relationship over changes.items(): each named attribute
\* becomes old + change, clamped to its range; a name RelationshipData does
\* not have is logged and skipped
RECURSIVE ApplyChanges(_, _)
ApplyChanges(rel, changes) ==
    IF changes = <<>> THEN rel
    ELSE LET attribute_name == Head(changes)[1]
             change_value == Head(changes)[2]
         IN  ApplyChanges(
                 IF attribute_name = "affinity"
                 THEN [rel EXCEPT !.affinity =
                          Max(-100, Min(100, rel.affinity + change_value))]
                 ELSE IF attribute_name = "familiarity"
                 THEN [rel EXCEPT !.familiarity =
                          Max(0, Min(100, rel.familiarity + change_value))]
                 ELSE rel,
                 Tail(changes))

\* update_relationship without the test of the agent's own id
update_relationship_no_self_test(rels, agent_id, target_agent_id, changes) ==
    [rels EXCEPT ![target_agent_id] =
        ApplyChanges(IF rels[target_agent_id].present THEN rels[target_agent_id]
                     ELSE RelationshipData, changes)]

\* Agent.update_relationship(target_agent_id, changes) of the agent agent_id
\* whose _relationships is rels: the _relationships afterwards
update_relationship(rels, agent_id, target_agent_id, changes) ==
    IF target_agent_id = agent_id THEN rels
    ELSE [rels EXCEPT ![target_agent_id] =
            ApplyChanges(IF rels[target_agent_id].present THEN rels[target_agent_id]
                         ELSE RelationshipData, changes)]

NoExec == [op |-> "none", agent |-> "None", targets |-> <<>>, ok |-> FALSE,
           duration |-> 0, changes |-> <<>>, exc |-> "none"]

\* one action executed, or one resolver called: what it leaves in the agents'
\* state and relationships, and the record of the call
LifeStep(exec, st, rel) ==
    /\ ops < MaxOps
    /\ ops' = ops + 1
    /\ last_exec' = exec
    /\ internal_state' = st
    /\ relationships' = rel
    /\ UNCHANGED <<timeline_vars, scale_vars, map_vars, agent_vars, ledger_vars,
                   parse_vars, reg_vars, memory_vars>>

\* a caller calls agent.update_relationship(target_agent_id, changes) with a
\* dict of one or two attributes, small and large amounts of both signs, or
\* an attribute RelationshipData does not have
UpdateRelationship ==
    \E a \in Agents, t \in TargetIds,
       changes \in {<<<<"affinity", -200>>>>, <<<<"affinity", 1>>>>,
                    <<<<"familiarity", 200>>>>, <<<<"familiarity", -1>>>>,
                    <<<<"trust", 1>>>>,
                    <<<<"familiarity", -50>>, <<"affinity", 200>>>>} :
        LifeStep([op |-> "update_relationship", agent |-> a, targets |-> <<t>>,
                  ok |-> TRUE, duration |-> 0, changes |-> changes,
                  exc |-> "none"],
                 internal_state,
                 [relationships EXCEPT ![a] = update_relationship(@, a, t, changes)])

\* SpeakAction.execute where the social need goes down on the speaker alone
SpeakExecute_speaker_only(st, rel, a, target_agent_id, agent_registry, r) ==
    IF /\ target_agent_id # "None" /\ agent_registry
       /\ get_agent_by_id(target_agent_id) # "None"
       /\ current_location[a] = current_location[get_agent_by_id(target_agent_id)]
    THEN LET target_agent == get_agent_by_id(target_agent_id)
             rel1 == [rel EXCEPT ![a] =
                        update_relationship(@, a, target_agent_id,
                                            <<<<"familiarity", r.familiarity[1]>>>>)]
             rel2 == [rel1 EXCEPT ![target_agent] =
                        update_relationship(@, target_agent, a,
                                            <<<<"familiarity", r.familiarity[2]>>>>)]
             st1 == [st EXCEPT ![a].social_need = Max(0, @ - r.social_need[1])]
         IN  [st |-> st1, rel |-> rel2]
    ELSE [st |-> st, rel |-> rel]

\* SpeakAction.execute that does not compare the two agents' locations
SpeakExecute_anywhere(st, rel, a, target_agent_id, agent_registry, r) ==
    IF /\ target_agent_id # "None" /\ agent_registry
       /\ get_agent_by_id(target_agent_id) # "None"
    THEN LET target_agent == get_agent_by_id(target_agent_id)
             rel1 == [rel EXCEPT ![a] =
                        update_relationship(@, a, target_agent_id,
                                            <<<<"familiarity", r.familiarity[1]>>>>)]
             rel2 == [rel1 EXCEPT ![target_agent] =
                        update_relationship(@, target_agent, a,
                                            <<<<"familiarity", r.familiarity[2]>>>>)]
             st1 == [st EXCEPT ![a].social_need = Max(0, @ - r.social_need[1])]
             st2 == [st1 EXCEPT ![target_agent].social_need =
                        Max(0, @ - r.social_need[2])]
         IN  [st |-> st2, rel |-> rel2]
    ELSE [st |-> st, rel |-> rel]

\* SpeakAction.execute(agent a, **kwargs) with the draws r of its four
\* random.randint calls, agent_registry telling whether the keyword argument
\* of that name is given: the agents' state and relationships afterwards
SpeakExecute(st, rel, a, target_agent_id, agent_registry, r) ==
    IF /\ target_agent_id # "None" /\ agent_registry
       /\ get_agent_by_id(target_agent_id) # "None"
       /\ current_location[a] = current_location[get_agent_by_id(target_agent_id)]
    THEN LET target_agent == get_agent_by_id(target_agent_id)
             rel1 == [rel EXCEPT ![a] =
                        update_relationship(@, a, target_agent_id,
                                            <<<<"familiarity", r.familiarity[1]>>>>)]
             rel2 == [rel1 EXCEPT ![target_agent] =
                        update_relationship(@, target_agent, a,
                                            <<<<"familiarity", r.familiarity[2]>>>>)]
             st1 == [st EXCEPT ![a].social_need = Max(0, @ - r.social_need[1])]
             st2 == [st1 EXCEPT ![target_agent].social_need =
                        Max(0, @ - r.social_need[2])]
         IN  [st |-> st2, rel |-> rel2]
    ELSE [st |-> st, rel |-> rel]

\* an agent executes a SpeakAction of two minutes, with the registry or
\* without: to nobody, to itself, to another agent, to an id nobody has;
\* random.randint(1, 3), twice, and random.randint(5, 15), twice, draw the
\* ends of their ranges
Speak ==
    \E a \in Agents, t \in TargetIds \cup {"None"}, agent_registry \in BOOLEAN,
       r \in {[familiarity |-> <<1, 3>>, social_need |-> <<5, 15>>],
              [familiarity |-> <<3, 1>>, social_need |-> <<15, 5>>],
              [familiarity |-> <<1, 1>>, social_need |-> <<5, 5>>],
              [familiarity |-> <<3, 3>>, social_need |-> <<15, 15>>]} :
        LET w == SpeakExecute(internal_state, relationships, a, t, agent_registry, r)
        IN  LifeStep([op |-> "Speak", agent |-> a, targets |-> <<t>>, ok |-> TRUE,
                      duration |-> 2,
                      changes |-> IF agent_registry THEN <<>>
                                  ELSE <<<<"agent_registry", 0>>>>,
                      exc |-> "none"], w.st, w.rel)

\* an agent executes a ListenAction of three minutes, random.randint(0, 2)
\* and random.randint(1, 5) drawing an end of their ranges
Listen ==
    \E a \in Agents, t \in TargetIds, f \in {0, 2}, n \in {1, 5} :
        LET target_agent == get_agent_by_id(t)
            heard == /\ target_agent # "None"
                     /\ current_location[a] = current_location[target_agent]
        IN  LifeStep([op |-> "Listen", agent |-> a, targets |-> <<t>>, ok |-> heard,
                      duration |-> IF heard THEN 3 ELSE 1, changes |-> <<>>, exc |-> "none"],
                     IF heard
                     THEN [internal_state EXCEPT ![a].social_need = Max(0, @ - n)]
                     ELSE internal_state,
                     IF heard
                     THEN [relationships EXCEPT ![a] =
                             update_relationship(@, a, t, <<<<"familiarity", f>>>>)]
                     ELSE relationships)

\* the loop of HangOutAction.execute over valid_targets, draws[i] being the
\* three draws of its i-th iteration
RECURSIVE HangOutTargets(_, _, _, _, _, _)
HangOutTargets(st, rel, a, valid_targets, draws, social_need_reduction) ==
    IF valid_targets = <<>> THEN [st |-> st, rel |-> rel]
    ELSE LET target == Head(valid_targets)
             changes == <<<<"familiarity", Head(draws)[1]>>, <<"affinity", Head(draws)[2]>>>>
             rel1 == [rel EXCEPT ![a] = update_relationship(@, a, target, changes)]
             rel2 == [rel1 EXCEPT ![target] = update_relationship(@, target, a, changes)]
             st1 == [st EXCEPT ![target].social_need = Max(0, @ - social_need_reduction),
                               ![target].stress_level = Max(0, @ - Head(draws)[3])]
         IN  HangOutTargets(st1, rel2, a, Tail(valid_targets), Tail(draws),
                            social_need_reduction)

\* an agent executes a HangOutAction of thirty minutes; random.randint(15, 40)
\* and random.randint(5, 15) draw n and z, and the loop draws d[i] from (3, 8),
\* (1, 5) and (5, 15) for its i-th target: the ends of the ranges
HangOut ==
    \E a \in Agents,
       ids \in {<<t>> : t \in TargetIds} \cup {<<"a1", "a2">>, <<"a2", "a2">>},
       n \in {15, 40}, z \in {5, 15},
       d \in {<<<<3, 1, 5>>, <<8, 5, 15>>>>, <<<<8, 5, 15>>, <<3, 1, 5>>>>} :
        LET valid_targets ==
                SelectSeq(ids, LAMBDA t :
                    /\ t # a
                    /\ get_agent_by_id(t) # "None"
                    /\ current_location[get_agent_by_id(t)] = current_location[a])
            st1 == [internal_state EXCEPT ![a].social_need = Max(0, @ - n),
                                          ![a].stress_level = Max(0, @ - z)]
            w == HangOutTargets(st1, relationships, a, valid_targets, d, n)
        IN  IF valid_targets = <<>>
            THEN LifeStep([op |-> "HangOut", agent |-> a, targets |-> ids, ok |-> FALSE,
                           duration |-> 5, changes |-> <<>>, exc |-> "none"],
                          internal_state, relationships)
            ELSE LifeStep([op |-> "HangOut", agent |-> a, targets |-> ids, ok |-> TRUE,
                           duration |-> 30, changes |-> <<>>, exc |-> "none"], w.st, w.rel)

----------------------------------------------------------------------------
(* The interaction resolvers (world_interactions.py) and the actions that *)
(* spend money or change needs                                            *)

\* example_locations_data: for each location its LocationType member and its
\* objects list
WorldLocations ==
    [Laundry_Room |-> [type |-> "INTERNAL_PUBLIC", objects |-> <<"WashingMachine">>],
     Cafe |-> [type |-> "COMMERCIAL", objects |-> <<"CoffeeMachine", "CafeCounter", "Table">>],
     Clinic |-> [type |-> "SERVICE", objects |-> <<"ClinicDesk">>],
     Supermarket |-> [type |-> "COMMERCIAL",
                      objects |-> <<"CheckoutCounter", "Shelf_Food", "Shelf_Drink">>],
     Park |-> [type |-> "OUTDOOR", objects |-> <<"Bench">>],
     Apartment_1A |-> [type |-> "RESIDENTIAL", objects |-> <<"Bed", "Fridge", "Shower">>]]

\* LocationType(...).value: the members' values are the Chinese labels of
\* locations.py, written here in pinyin; none of them is a member's name
LocationTypeValue ==
    [RESIDENTIAL |-> "zhuzhai", COMMERCIAL |-> "shangye", OUTDOOR |-> "huwai",
     INTERNAL_PUBLIC |-> "gongyu neibu gonggong quyu", SERVICE |-> "fuwu sheshi"]

\* INTERACTION_RULES.get(object_name): the rule of an object (defined is
\* FALSE where the dict has no such key), a key the rule lacks being "absent",
\* -1 or an empty sequence. state_changes holds (attribute, low, high) for the
\* ranged effects; the effects given as strings ("mood": "CONTENT",
\* "health_status": "HEALTHY") change nothing, MoodState("CONTENT") and
\* HealthStatus("HEALTHY") raising the ValueError the resolver catches
RuleOf(object_name) ==
    LET absent == [defined |-> FALSE, required_location_type |-> "absent", cost |-> -1,
                   duration_minutes |-> -1, state_changes |-> <<>>,
                   precondition |-> "absent", job_type |-> "absent", hourly_wage |-> -1,
                   interaction_verb |-> "absent", items_for_sale |-> <<>>]
        none == [absent EXCEPT !.defined = TRUE]
    IN  CASE object_name = "WashingMachine" ->
               [none EXCEPT !.cost = 5, !.duration_minutes = 30,
                            !.required_location_type = "INTERNAL_PUBLIC",
                            !.state_changes = <<<<"laundry_need", -70, -30>>,
                                                <<"energy", -5, -5>>>>,
                            !.precondition = "laundry_need > 20"]
          [] object_name = "CoffeeMachine" ->
               [none EXCEPT !.cost = 5, !.duration_minutes = 3,
                            !.required_location_type = "COMMERCIAL",
                            !.state_changes = <<<<"energy", 10, 25>>>>]
          [] object_name = "CafeCounter" ->
               [none EXCEPT !.job_type = "barista", !.hourly_wage = 15,
                            !.required_location_type = "COMMERCIAL"]
          [] object_name = "ClinicDesk" ->
               [none EXCEPT !.cost = 100, !.duration_minutes = 20,
                            !.required_location_type = "SERVICE",
                            !.state_changes = <<<<"stress_level", -20, -5>>>>]
          [] object_name = "CheckoutCounter" ->
               [none EXCEPT !.job_type = "cashier", !.hourly_wage = 12,
                            !.required_location_type = "COMMERCIAL"]
          [] object_name = "Shelf_Food" ->
               [none EXCEPT !.interaction_verb = "buy_from", !.duration_minutes = 5,
                            !.required_location_type = "COMMERCIAL",
                            !.items_for_sale = <<<<"apple", 2>>, <<"bread", 3>>>>]
          [] object_name = "Bench" ->
               [none EXCEPT !.duration_minutes = 15, !.required_location_type = "OUTDOOR",
                            !.state_changes = <<<<"energy", 1, 5>>,
                                                <<"stress_level", -10, -1>>>>]
          [] OTHER -> absent

\* the outcome of a resolver call: the (success, duration) it returns or the
\* exception it raises, and the agent's internal state afterwards
Outcome(ok, duration, st, exc) == [ok |-> ok, duration |-> duration, st |-> st, exc |-> exc]

\* interact_with_object(agent, object_name, world_map) for an agent in state
\* st at location_name; high[i] tells whether the i-th random.randint draws
\* the high end of its range
interact_with_object(st, location_name, object_name, high) ==
    LET rules == RuleOf(object_name)
        change(i) == IF high[i] THEN rules.state_changes[i][3]
                     ELSE rules.state_changes[i][2]
        apply(s, i) == IF i > Len(rules.state_changes) THEN s
                       ELSE [s EXCEPT ![rules.state_changes[i][1]] = @ + change(i)]
        paid == IF rules.cost >= 0 THEN [st EXCEPT !.money = @ - rules.cost] ELSE st
    IN  IF location_name \notin DOMAIN WorldLocations
        THEN Outcome(FALSE, 1, st, "none")
        ELSE IF object_name \notin SeqRange(WorldLocations[location_name].objects)
        THEN Outcome(FALSE, 1, st, "none")
        ELSE IF ~rules.defined THEN Outcome(FALSE, 1, st, "none")
        ELSE IF /\ rules.required_location_type # "absent"
                /\ LocationTypeValue[WorldLocations[location_name].type]
                      # rules.required_location_type
                /\ location_name # "None"  \* rules.get("required_location_name")
        THEN Outcome(FALSE, 1, st, "none")
        ELSE IF rules.precondition = "laundry_need > 20" /\ ~(st.laundry_need > 20)
        THEN Outcome(FALSE, 1, st, "none")
        ELSE IF rules.cost >= 0 /\ st.money < rules.cost
        THEN Outcome(FALSE, 1, st, "none")
        ELSE Outcome(TRUE,
                     IF rules.duration_minutes = -1 THEN 1 ELSE rules.duration_minutes,
                     apply(apply(paid, 1), 2), "none")

\* perform_work(agent, job_type, duration_minutes, world_map, agent_registry):
\* WorldMap defines no assign_job_to_agent, so the call that follows the wage
\* test raises AttributeError and nothing after it runs
perform_work(st, location_name, job_type, duration_minutes) ==
    LET objects == IF location_name \in DOMAIN WorldLocations
                   THEN WorldLocations[location_name].objects ELSE <<>>
        found == \E i \in 1..Len(objects) : RuleOf(objects[i]).job_type = job_type
        job_rule == RuleOf(objects[CHOOSE i \in 1..Len(objects) :
                        /\ RuleOf(objects[i]).job_type = job_type
                        /\ \A j \in 1..(i - 1) : RuleOf(objects[j]).job_type # job_type])
    IN  IF location_name \notin DOMAIN WorldLocations THEN Outcome(FALSE, 1, st, "none")
        ELSE IF ~found THEN Outcome(FALSE, 1, st, "none")
        ELSE IF job_rule.hourly_wage = -1 THEN Outcome(FALSE, 1, st, "none")
        ELSE Outcome(FALSE, 0, st, "AttributeError")

\* buy_item that takes the money before it compares it with the total cost
buy_item_pays_first(st, location_name, item_name, quantity, draw) ==
    LET objects == IF location_name \in DOMAIN WorldLocations
                   THEN WorldLocations[location_name].objects ELSE <<>>
        sells(i) == /\ RuleOf(objects[i]).interaction_verb = "buy_from"
                    /\ \E k \in 1..Len(RuleOf(objects[i]).items_for_sale) :
                          RuleOf(objects[i]).items_for_sale[k][1] = item_name
        seller == RuleOf(objects[CHOOSE i \in 1..Len(objects) : sells(i)])
        item_price == (CHOOSE p \in SeqRange(seller.items_for_sale) : p[1] = item_name)[2]
        paid == [st EXCEPT !.money = Max(0, @ - item_price * quantity)]
    IN  IF ~\E i \in 1..Len(objects) : sells(i) THEN Outcome(FALSE, 1, st, "none")
        ELSE IF st.money < item_price * quantity THEN Outcome(FALSE, 1, paid, "none")
        ELSE Outcome(TRUE, seller.duration_minutes, paid, "none")

\* buy_item that takes the money without comparing it with the total cost
buy_item_no_funds_test(st, location_name, item_name, quantity, draw) ==
    LET objects == IF location_name \in DOMAIN WorldLocations
                   THEN WorldLocations[location_name].objects ELSE <<>>
        sells(i) == /\ RuleOf(objects[i]).interaction_verb = "buy_from"
                    /\ \E k \in 1..Len(RuleOf(objects[i]).items_for_sale) :
                          RuleOf(objects[i]).items_for_sale[k][1] = item_name
        seller == RuleOf(objects[CHOOSE i \in 1..Len(objects) : sells(i)])
        item_price == (CHOOSE p \in SeqRange(seller.items_for_sale) : p[1] = item_name)[2]
    IN  IF ~\E i \in 1..Len(objects) : sells(i) THEN Outcome(FALSE, 1, st, "none")
        ELSE Outcome(TRUE, seller.duration_minutes,
                     [st EXCEPT !.money = @ - item_price * quantity], "none")

\* buy_item(agent, item_name, quantity, world_map) for an agent in state st at
\* location_name, random.randint(5, 15) drawing draw
buy_item(st, location_name, item_name, quantity, draw) ==
    LET objects == IF location_name \in DOMAIN WorldLocations
                   THEN WorldLocations[location_name].objects ELSE <<>>
        sells(i) == /\ RuleOf(objects[i]).interaction_verb = "buy_from"
                    /\ \E k \in 1..Len(RuleOf(objects[i]).items_for_sale) :
                          RuleOf(objects[i]).items_for_sale[k][1] = item_name
        seller == RuleOf(objects[CHOOSE i \in 1..Len(objects) :
                        sells(i) /\ \A j \in 1..(i - 1) : ~sells(j)])
        item_price == (CHOOSE p \in SeqRange(seller.items_for_sale) : p[1] = item_name)[2]
        total_cost == item_price * quantity
        paid == [st EXCEPT !.money = @ - total_cost]
    IN  IF location_name \notin DOMAIN WorldLocations THEN Outcome(FALSE, 1, st, "none")
        ELSE IF ~\E i \in 1..Len(objects) : sells(i) THEN Outcome(FALSE, 1, st, "none")
        ELSE IF st.money < total_cost THEN Outcome(FALSE, 1, st, "none")
        ELSE Outcome(TRUE,
                     IF seller.duration_minutes = -1 THEN 3 ELSE seller.duration_minutes,
                     IF item_name \in {"apple", "bread", "sandwich"}
                     THEN [paid EXCEPT !.hunger = Max(0, @ - draw * quantity)]
                     ELSE paid,
                     "none")

\* the record of a call by agent a and the state it leaves
ResolverStep(op, a, target, r) ==
    LifeStep([op |-> op, agent |-> a, targets |-> <<target>>, ok |-> r.ok,
              duration |-> r.duration, changes |-> <<>>, exc |-> r.exc],
             [internal_state EXCEPT ![a] = r.st], relationships)

\* a caller awaits interact_with_object for agent a1 and one of the objects
InteractWithObject ==
    \E object_name \in {"WashingMachine", "CoffeeMachine", "CafeCounter", "Shelf_Food",
                        "Bench", "Table"},
       high \in {<<FALSE, FALSE>>, <<TRUE, TRUE>>} :
        ResolverStep("interact_with_object", "a1", object_name,
                     interact_with_object(internal_state["a1"], current_location["a1"],
                                          object_name, high))

\* a caller awaits perform_work for agent a1
PerformWork ==
    \E job_type \in {"barista", "cashier"} :
        ResolverStep("perform_work", "a1", job_type,
                     perform_work(internal_state["a1"], current_location["a1"],
                                  job_type, 60))

\* a caller awaits buy_item for agent a1, with a quantity of any sign
BuyItem ==
    \E item_name \in {"apple", "bread", "coffee"}, quantity \in {-1, 1, 2},
       draw \in {5, 15} :
        LET r == buy_item(internal_state["a1"], current_location["a1"], item_name,
                          quantity, draw)
        IN  LifeStep([op |-> "buy_item", agent |-> "a1", targets |-> <<item_name>>,
                      ok |-> r.ok, duration |-> r.duration,
                      changes |-> <<<<"quantity", quantity>>>>, exc |-> r.exc],
                     [internal_state EXCEPT !["a1"] = r.st], relationships)

\* agent a1 executes a UseObjectAction of five minutes
UseObject ==
    \E object_name \in {"WashingMachine", "CoffeeMachine", "Bench", "Table"},
       high \in BOOLEAN :
        LET st == internal_state["a1"]
            location == current_location["a1"]
        IN  ResolverStep("UseObject", "a1", object_name,
              IF location = "Laundry_Room" /\ object_name = "WashingMachine"
              THEN IF st.laundry_need > 20
                   THEN Outcome(TRUE, 5,
                          [st EXCEPT !.laundry_need =
                                        Max(0, @ - (IF high THEN 70 ELSE 30)),
                                     !.energy = Max(0, @ - 5)], "none")
                   ELSE Outcome(FALSE, 1, st, "none")
              ELSE IF location = "Cafe" /\ object_name = "CoffeeMachine"
              THEN IF st.money >= 5
                   THEN Outcome(TRUE, 5,
                          [st EXCEPT !.money = @ - 5,
                                     !.energy = Min(100, @ + (IF high THEN 25 ELSE 10)),
                                     !.mood = "CONTENT"], "none")
                   ELSE Outcome(FALSE, 1, st, "none")
              ELSE IF location = "Park" /\ object_name = "Bench"
              THEN Outcome(TRUE, 5,
                     [st EXCEPT !.energy = Min(100, @ + (IF high THEN 5 ELSE 1)),
                                !.stress_level = Max(0, @ - (IF high THEN 10 ELSE 1))],
                     "none")
              ELSE Outcome(FALSE, 1, st, "none"))

\* agent a1 executes an EatAction of fifteen minutes; high tells which of the
\* draws of the hunger reduction, the cost and the energy take the high end
Eat ==
    \E high \in [1..3 -> BOOLEAN] :
        LET st == internal_state["a1"]
            location == current_location["a1"]
            cost == IF high[2] THEN 25 ELSE 10
            fed(s, hunger_reduction) ==
                [s EXCEPT !.hunger = Max(0, @ - hunger_reduction),
                          !.energy = Min(100, @ + (IF high[3] THEN 10 ELSE 0))]
        IN  ResolverStep("Eat", "a1", "None",
              IF location \in {"Apartment_1A", "Apartment_1B"}
              THEN Outcome(TRUE, 15, fed(st, IF high[1] THEN 80 ELSE 40), "none")
              ELSE IF location = "Cafe"
              THEN IF st.money >= cost
                   THEN Outcome(TRUE, 15,
                          fed([st EXCEPT !.money = @ - cost], IF high[1] THEN 60 ELSE 30),
                          "none")
                   ELSE Outcome(FALSE, 1, fed(st, 0), "none")
              ELSE Outcome(FALSE, 1, st, "none"))

\* agent a1 executes a BuyAction of ten minutes
Buy ==
    \E item_name \in {"food", "coffee", "sandwich", "apple"}, quantity \in {1, 30} :
        LET st == internal_state["a1"]
            location == current_location["a1"]
            item_costs == IF location = "Supermarket"
                          THEN <<<<"food", 10>>, <<"drink", 3>>, <<"cleaning_supply", 8>>>>
                          ELSE IF location = "Cafe"
                          THEN <<<<"coffee", 5>>, <<"sandwich", 8>>>>
                          ELSE <<>>
            can_buy == \E p \in SeqRange(item_costs) : p[1] = item_name
            total_cost ==
                (CHOOSE p \in SeqRange(item_costs) : p[1] = item_name)[2] * quantity
        IN  ResolverStep("Buy", "a1", item_name,
              IF can_buy /\ st.money >= total_cost
              THEN Outcome(TRUE, 10,
                     [st EXCEPT !.money = @ - total_cost,
                                !.hunger = IF item_name = "food" THEN Max(0, @ - 5) ELSE @],
                     "none")
              ELSE Outcome(FALSE, 1, st, "none"))

----------------------------------------------------------------------------
(* Initial states and specifications *)

\* a Timeline constructed with a start time of S and a time_scale from scales,
\* whose listeners are ls
InitTimelineScaled(S, ls, scales) ==
    /\ start_time \in S
    /\ current_time = start_time
    /\ is_paused = FALSE
    /\ listeners = ls
    /\ last_subscribe = NoSubscribe
    /\ loop_pc = "check"
    /\ last_tick = NoTick
    /\ error_log = {}
    /\ \E scale \in scales :
          LET r == set_time_scale(Ratio(1, 1), Ratio(1, 1), scale)
          IN  /\ time_scale = r.time_scale
              /\ sleep_duration = r.sleep_duration
              /\ last_set_scale = [scale |-> scale, time_scale |-> Ratio(1, 1),
                                   sleep_duration |-> Ratio(1, 1), ctor |-> TRUE]

\* the same with the constructor's default time_scale of 4.0
InitTimelineWith(S, ls) == InitTimelineScaled(S, ls, {Ratio(4, 1)})

\* the llm and memory_system an Agent is constructed with: both, the memory
\* system alone, neither
AgentConfigs == {[llm |-> TRUE, memory |-> TRUE], [llm |-> FALSE, memory |-> TRUE],
                 [llm |-> FALSE, memory |-> FALSE]}

InitAgentsWith(cfgs) ==
    /\ registry_agents = <<>>
    /\ registry_map = [a \in Agents |-> "None"]
    /\ last_register = [agent |-> "None", exc |-> "none"]
    /\ tasks = {}
    /\ last_event = NoEvent
    /\ current_action = [a \in Agents |-> NoAction]
    /\ current_location = [a \in Agents |-> "Park"]
    /\ agent_cfg \in cfgs
    /\ cycle = [a \in Agents |-> NoCycle]
    /\ idle_call = NoIdleCall

InitLedger ==
    /\ occupied_jobs = [a \in Workers |-> NoJob]
    /\ assign_ret = NoAssign

\* a WorldMap before load_map_from_files, and the connections file it will read
InitMapWith(files) ==
    /\ raw_connections \in files
    /\ connections = <<>>
    /\ map_loaded = FALSE
    /\ path_call = NoPathCall

\* the agents' state as constructed from the profiles, nothing executed yet
InitLifeWith(states) ==
    /\ internal_state \in states
    /\ relationships = [a \in Agents |-> [t \in TargetIds |-> [RelationshipData EXCEPT !.present = FALSE]]]
    /\ last_exec = NoExec
    /\ ops = 0

\* a MemorySystem whose collections hold the documents of stores
InitMemoryWith(stores) ==
    /\ store \in stores
    /\ memory_call = NoMemoryCall

InitParseWith(outs) ==
    /\ llm_output \in outs
    /\ parsed = NoParse

\* the parser alone, on every output
InitParse ==
    /\ InitTimelineWith({720}, NoListeners)
    /\ InitAgentsWith({[a \in Agents |-> [llm |-> TRUE, memory |-> TRUE]]})
    /\ agent_cfg = [a \in Agents |-> [llm |-> TRUE, memory |-> TRUE]]
    /\ InitLedger
    /\ InitMapWith({<<>>})
    /\ InitLifeWith({[a \in Agents |-> AgentInternalState]})
    /\ InitMemoryWith({[a \in Agents |-> {}]})
    /\ InitParseWith(LLMOutputs)

SpecParse == InitParse /\ [][Parse]_vars

\* the ledger alone
InitLedgerOnly ==
    /\ InitTimelineWith({720}, NoListeners)
    /\ InitAgentsWith({[a \in Agents |-> [llm |-> TRUE, memory |-> TRUE]]})
    /\ agent_cfg = [a \in Agents |-> [llm |-> TRUE, memory |-> TRUE]]
    /\ InitLedger
    /\ InitMapWith({<<>>})
    /\ InitLifeWith({[a \in Agents |-> AgentInternalState]})
    /\ InitMemoryWith({[a \in Agents |-> {}]})
    /\ InitParseWith({CHOOSE o \in LLMOutputs : TRUE})

NextLedger == Assign \/ Release \/ IsJobAvailable

SpecLedger == InitLedgerOnly /\ [][NextLedger]_vars

\* the Timeline alone: constructed at any of the start times, no subscriber yet
InitTimeline ==
    /\ InitTimelineWith(StartTimes, NoListeners)
    /\ InitAgentsWith({[a \in Agents |-> [llm |-> TRUE, memory |-> TRUE]]})
    /\ agent_cfg = [a \in Agents |-> [llm |-> TRUE, memory |-> TRUE]]
    /\ InitLedger
    /\ InitMapWith({<<>>})
    /\ InitLifeWith({[a \in Agents |-> AgentInternalState]})
    /\ InitMemoryWith({[a \in Agents |-> {}]})
    /\ InitParseWith({CHOOSE o \in LLMOutputs : TRUE})

NextTimeline == Subscribe \/ pause \/ resume \/ LoopCheck \/ LoopWake \/ LoopTick

SpecTimeline == InitTimeline /\ [][NextTimeline]_vars

\* the simulation as wired: the registry's on_minute_update is subscribed to
\* on_minute_passed, agents built without a decision provider are registered
\* as the run goes, and callers start cycles and call _trigger_agent_think
Init ==
    /\ InitTimelineWith({720}, subscribe(NoListeners, "on_minute_passed", "on_minute_update"))
    /\ InitAgentsWith({c \in [Agents -> AgentConfigs] : ~c["a1"].llm /\ ~c["a2"].memory})
    /\ InitLedger
    /\ InitMapWith({<<>>})
    /\ InitLifeWith({[a \in Agents |-> AgentInternalState]})
    /\ InitMemoryWith({[a \in Agents |-> {}]})
    /\ InitParseWith({CHOOSE o \in LLMOutputs : TRUE})

Next ==
    \/ LoopCheck \/ LoopTick
    \/ RegisterAgent \/ TriggerAgentThink \/ ThinkAndAct

Spec == Init /\ [][Next]_vars

\* agents driven by a caller that passes every argument, on a clock nobody
\* has subscribed to
InitAgent ==
    /\ InitTimelineWith({720}, NoListeners)
    /\ InitAgentsWith({c \in [Agents -> AgentConfigs] : c["a1"].llm /\ ~c["a2"].llm})
    /\ InitLedger
    /\ InitMapWith({<<>>})
    /\ InitLifeWith({[a \in Agents |-> AgentInternalState]})
    /\ InitMemoryWith({[a \in Agents |-> {}]})
    /\ InitParseWith({CHOOSE o \in LLMOutputs : TRUE})

NextAgent ==
    \/ LoopCheck \/ LoopTick
    \/ ThinkAndAct \/ Retrieved \/ Decided \/ Written \/ CallIsIdle

SpecAgent == InitAgent /\ [][NextAgent]_vars

\* the simulation as wired, where agent a1 has a decision provider and a
\* memory system and a2 has neither: callers register them and start their
\* cycles, and the cycles of a1 think while the clock ticks
InitThinking ==
    /\ InitTimelineWith({720}, subscribe(NoListeners, "on_minute_passed", "on_minute_update"))
    /\ InitAgentsWith({[a \in Agents |-> [llm |-> a = "a1", memory |-> a = "a1"]]})
    /\ InitLedger
    /\ InitMapWith({<<>>})
    /\ InitLifeWith({[a \in Agents |-> AgentInternalState]})
    /\ InitMemoryWith({[a \in Agents |-> {}]})
    /\ InitParseWith({CHOOSE o \in LLMOutputs : TRUE})

NextThinking ==
    \/ LoopCheck \/ LoopTick
    \/ RegisterAgent \/ TriggerAgentThink
    \/ ThinkAndAct \/ Retrieved \/ Decided \/ Written

SpecThinking == InitThinking /\ [][NextThinking]_vars

\* a caller assigns a job of the cafe to an agent while the agent's decision
\* cycle is in flight:
\* world_state.assign_job_to_agent(agent, "Cafe", job_type, world_map)
AssignInCycle ==
    /\ \E a \in Agents, l \in {"Cafe"}, j \in JobTypes :
          LET r == assign_job_to_agent(occupied_jobs, a, l, j)
          IN  /\ cycle[a].pc # "none"
              /\ occupied_jobs' = r.jobs
              /\ assign_ret' = [agent |-> a, released |-> "none", location |-> l,
                                job |-> j, ret |-> r.ret, before |-> occupied_jobs]
    /\ UNCHANGED <<timeline_vars, agent_vars, parse_vars>>
    /\ UNCHANGED scale_vars
    /\ UNCHANGED map_vars
    /\ UNCHANGED <<life_vars, reg_vars, memory_vars>>

\* agents and the ledger together, on a clock nobody has subscribed to: callers
\* start the cycles, assign a job during a cycle and ask whether an agent is idle
NextShift ==
    \/ LoopCheck \/ LoopTick
    \/ ThinkAndAct \/ Retrieved \/ Decided \/ Written \/ CallIsIdle
    \/ AssignInCycle

SpecShift == InitAgent /\ [][NextShift]_vars

\* a Timeline of any scale, paused, resumed and rescaled while its loop runs
InitScale ==
    /\ InitTimelineScaled({720}, NoListeners, Scales)
    /\ InitAgentsWith({[a \in Agents |-> [llm |-> TRUE, memory |-> TRUE]]})
    /\ InitLedger
    /\ InitMapWith({<<>>})
    /\ InitLifeWith({[a \in Agents |-> AgentInternalState]})
    /\ InitMemoryWith({[a \in Agents |-> {}]})
    /\ InitParseWith({CHOOSE o \in LLMOutputs : TRUE})

NextScale == SetTimeScale \/ pause \/ resume \/ LoopCheck \/ LoopWake \/ LoopTick

SpecScale == InitScale /\ [][NextScale]_vars

\* a WorldMap that loads one of the connections files and answers path queries
InitMap ==
    /\ InitTimelineWith({720}, NoListeners)
    /\ InitAgentsWith({[a \in Agents |-> [llm |-> TRUE, memory |-> TRUE]]})
    /\ occupied_jobs = [a \in Workers |-> NoJob]
    /\ assign_ret = NoAssign
    /\ InitMapWith(RawFiles)
    /\ InitLifeWith({[a \in Agents |-> AgentInternalState]})
    /\ InitMemoryWith({[a \in Agents |-> {}]})
    /\ InitParseWith({CHOOSE o \in LLMOutputs : TRUE})

NextMap == LoadMap \/ FindPath

SpecMap == InitMap /\ [][NextMap]_vars

----------------------------------------------------------------------------
\* two registered agents, built from the default profile in two places or
\* with one of them low in social need and stress in one place, that speak, listen, hang out and have
\* their relationships updated
InitSocial ==
    /\ InitTimelineWith({720}, NoListeners)
    /\ registry_agents = <<"a1", "a2">>
    /\ registry_map = [a \in Agents |-> a]
    /\ last_register = [agent |-> "a2", exc |-> "none"]
    /\ tasks = {}
    /\ last_event = NoEvent
    /\ current_action = [a \in Agents |-> NoAction]
    /\ \E together \in BOOLEAN :
          /\ current_location =
                [a \in Agents |-> IF a = "a1" \/ together THEN "Park" ELSE "Cafe"]
          /\ internal_state =
                [a \in Agents |->
                    IF a = "a1" /\ together
                    THEN [AgentInternalState EXCEPT !.social_need = 7,
                                                    !.stress_level = 4]
                    ELSE AgentInternalState]
    /\ agent_cfg = [a \in Agents |-> [llm |-> TRUE, memory |-> TRUE]]
    /\ cycle = [a \in Agents |-> NoCycle]
    /\ idle_call = NoIdleCall
    /\ InitLedger
    /\ InitMapWith({<<>>})
    /\ relationships = [a \in Agents |-> [t \in TargetIds |-> [RelationshipData EXCEPT !.present = FALSE]]]
    /\ last_exec = NoExec
    /\ ops = 0
    /\ InitMemoryWith({[a \in Agents |-> {}]})
    /\ InitParseWith({CHOOSE o \in LLMOutputs : TRUE})

NextSocial == UpdateRelationship \/ Speak \/ Listen \/ HangOut

SpecSocial == InitSocial /\ [][NextSocial]_vars

\* the registry alone, handed every object
InitRegistry ==
    /\ InitTimelineWith({720}, NoListeners)
    /\ InitAgentsWith({[a \in Agents |-> [llm |-> TRUE, memory |-> TRUE]]})
    /\ InitLedger
    /\ InitMapWith({<<>>})
    /\ InitLifeWith({[a \in Agents |-> AgentInternalState]})
    /\ InitMemoryWith({[a \in Agents |-> {}]})
    /\ InitParseWith({CHOOSE o \in LLMOutputs : TRUE})

SpecRegistry == InitRegistry /\ [][RegisterAnyAgent]_vars

----------------------------------------------------------------------------
\* agent a1 built from one of three profiles (the defaults, one with needs and
\* little money, one with less money) in one of the world's places or in a
\* place the map does not know; resolvers are called for it and it executes
\* actions
InitWorld ==
    /\ InitTimelineWith({720}, NoListeners)
    /\ registry_agents = <<"a1", "a2">>
    /\ registry_map = [a \in Agents |-> a]
    /\ last_register = [agent |-> "a2", exc |-> "none"]
    /\ tasks = {}
    /\ last_event = NoEvent
    /\ current_action = [a \in Agents |-> NoAction]
    /\ \E place \in DOMAIN WorldLocations \cup {"Mars"} :
          current_location = [a \in Agents |-> IF a = "a1" THEN place ELSE "Park"]
    /\ agent_cfg = [a \in Agents |-> [llm |-> TRUE, memory |-> TRUE]]
    /\ cycle = [a \in Agents |-> NoCycle]
    /\ idle_call = NoIdleCall
    /\ InitLedger
    /\ InitMapWith({<<>>})
    /\ \E money \in {100, 6, 3} :
          InitLifeWith({[a \in Agents |->
              IF a = "a1" /\ money < 100
              THEN [AgentInternalState EXCEPT !.energy = 98, !.hunger = 95,
                                              !.stress_level = 5, !.laundry_need = 60,
                                              !.money = money]
              ELSE AgentInternalState]})
    /\ InitMemoryWith({[a \in Agents |-> {}]})
    /\ InitParseWith({CHOOSE o \in LLMOutputs : TRUE})

NextWorld == InteractWithObject \/ PerformWork \/ BuyItem \/ UseObject \/ Eat \/ Buy

SpecWorld == InitWorld /\ [][NextWorld]_vars

----------------------------------------------------------------------------
\* a MemorySystem whose collection for agent a1 is empty or holds five records
\* written by add_memory at whole hours up to two hours ago; callers add and
\* retrieve for a1, and a1, built with a decision provider and the memory
\* system, runs its cycle on a clock that stands
InitMemory ==
    /\ InitTimelineWith({720}, NoListeners)
    /\ InitAgentsWith({c \in [Agents -> AgentConfigs] : c["a1"].llm /\ c["a1"].memory
                                                        /\ ~c["a2"].llm /\ c["a2"].memory})
    /\ InitLedger
    /\ InitMapWith({<<>>})
    /\ InitLifeWith({[a \in Agents |-> AgentInternalState]})
    /\ InitMemoryWith(
          {[a \in Agents |-> {}],
           [a \in Agents |->
               IF a = "a1"
               THEN {[MemoryRecord(1, "a1", 720, "action") EXCEPT !.importance = 5],
                     [MemoryRecord(2, "a1", 600, "mentor suggests")
                         EXCEPT !.importance = 10],
                     [MemoryRecord(3, "a1", 720, "observed:") EXCEPT !.importance = 4],
                     [MemoryRecord(4, "a1", 660, "insight") EXCEPT !.importance = 8],
                     [MemoryRecord(5, "a1", 600, "asked:") EXCEPT !.importance = 6]}
               ELSE {}]})
    /\ InitParseWith({CHOOSE o \in LLMOutputs : TRUE})

NextMemory ==
    \/ AddMemory \/ RetrieveMemories
    \/ ThinkAndAct \/ Retrieved \/ Decided \/ Written

SpecMemory == InitMemory /\ [][NextMemory]_vars

----------------------------------------------------------------------------
(* Properties *)

\* the ledger's entries as (agent id, job) pairs
LedgerEntries == {<<a, occupied_jobs[a]>> : a \in {w \in Workers : occupied_jobs[w] # NoJob}}

\* C1: after any sequence of assign and release calls, no (location, job type)
\* pair has more ledger entries than the capacity the location declares for
\* it (none at all where nothing is declared), and every agent id has at most
\* one entry
C1_CapacityNeverExceeded ==
    /\ \A l \in LocationNames, j \in JobTypes :
          Cardinality({e \in LedgerEntries : e[2] = Job(l, j)})
             <= (IF l \in DOMAIN WorldJobs THEN MaxWorkers(l, j) ELSE 0)
    /\ \A a \in Workers : Cardinality({e \in LedgerEntries : e[1] = a}) <= 1

\* every declared slot is taken, and the last assign was refused
C1_Witness ==
    /\ \A l \in DOMAIN WorldJobs, j \in JobTypes :
          CurrentWorkers(occupied_jobs, l, j) = MaxWorkers(l, j)
    /\ assign_ret.agent # "none" /\ ~assign_ret.ret

\* C2: an assign for an agent that has an entry, or for a pair whose occupant
\* count equals its declared capacity, returns false and leaves the ledger as
\* it was; an assign for an agent without an entry to a pair with a free
\* declared slot returns true and adds the one entry agent -> (location, job)
C2_AssignOutcome ==
    assign_ret.agent # "none" =>
        LET b == assign_ret.before
            a == assign_ret.agent
            l == assign_ret.location
            j == assign_ret.job
            cap == IF l \in DOMAIN WorldJobs THEN MaxWorkers(l, j) ELSE 0
            count == Cardinality({w \in Workers : b[w] = Job(l, j)})
        IN  /\ (b[a] # NoJob \/ count = cap) =>
                  ~assign_ret.ret /\ occupied_jobs = b
            /\ (b[a] = NoJob /\ count < cap) =>
                  /\ assign_ret.ret
                  /\ occupied_jobs[a] = Job(l, j)
                  /\ \A w \in Workers \ {a} : occupied_jobs[w] = b[w]

\* an agent that holds a job asked for a free slot elsewhere and was refused
C2_Witness ==
    /\ assign_ret.agent # "none"
    /\ assign_ret.before[assign_ret.agent] # NoJob
    /\ is_job_available(assign_ret.before, assign_ret.location, assign_ret.job)
    /\ ~assign_ret.ret

\* an output the parser has to fall back on: not JSON, an action name
\* ACTION_MAPPING does not have, or parameters the action's class rejects
InvalidOutput(out) ==
    \/ out.fence = "plain" \/ out.text = "garbage"
    \/ out.text = "object" /\ out.action_name \notin DOMAIN ACTION_MAPPING
    \/ /\ out.text = "object" /\ out.action_name \in DOMAIN ACTION_MAPPING
       /\ \/ out.nested = "null"
          \/ out.action_name = "MoveTo" /\ out.target = "absent"
          \/ out.has_duration /\ out.action_name = "Sleep" /\ out.duration < 60
          \/ out.has_duration /\ out.duration < 1

\* C7: parsing the provider's output never raises, and for an output that is
\* not JSON, names an unknown action or fails validation the action returned
\* is a wait of exactly one minute
C7_ParseNeverRaises ==
    parsed # NoParse =>
        /\ parsed.exc = "none"
        /\ InvalidOutput(llm_output) => parsed.action = Action("Wait", 1, "none")

\* a fenced JSON array, and a sleep shorter than its minimum, were parsed
C7_Witness ==
    /\ parsed # NoParse
    /\ \/ llm_output.fence = "json" /\ llm_output.text = "array"
       \/ /\ llm_output.text = "object" /\ llm_output.action_name = "Sleep"
          /\ llm_output.nested = "map" /\ llm_output.duration = 7
    /\ parsed.action = Action("Wait", 1, "none")

\* the calls of the last tick made for on_minute_passed
MinuteCalls == SelectSeq(last_tick.calls, LAMBDA c : c.event = "on_minute_passed")

\* C10: a tick moves the time forward by exactly one minute and calls every
\* on_minute_passed subscriber once, in order, with the new time, whatever
\* else the tick publishes and whichever callbacks raise
C10_TickAdvancesOneMinute ==
    last_tick # NoTick =>
        /\ last_tick.new = last_tick.old + 1
        /\ current_time = last_tick.new
        /\ Len(MinuteCalls) = Len(last_tick.subs["on_minute_passed"])
        /\ \A i \in 1..Len(MinuteCalls) :
              /\ MinuteCalls[i].cb = last_tick.subs["on_minute_passed"][i]
              /\ MinuteCalls[i].time = last_tick.new

\* a tick over a day boundary with two minute subscribers, the first of which raised
C10_Witness ==
    /\ last_tick # NoTick
    /\ Day(last_tick.old) # Day(last_tick.new)
    /\ Len(last_tick.subs["on_minute_passed"]) = 2
    /\ MinuteCalls[1].raised

\* C9: the run loop performs no tick while the pause flag is set
C9_NoTickWhilePaused == [][is_paused => current_time' = current_time]_vars

\* C3: a minute event gives a task to every registered agent without an
\* action in progress, and none to an agent whose action is not yet complete
C3_IdleAgentsDispatched ==
    last_event.time # -1 =>
        /\ last_event.idle \subseteq last_event.dispatched
        /\ last_event.waiting \cap last_event.dispatched = {}

\* C4: an idle check on an agent with an action in progress, made at or after
\* the action's completion time, returns idle and clears the action; made
\* before it, returns not-idle and changes nothing; with no action in
\* progress it returns idle
C4_IdleCheck ==
    idle_call.agent # "none" =>
        IF idle_call.act = NoAction
        THEN idle_call.exc = "none" /\ idle_call.ret
        ELSE IF idle_call.time < idle_call.act.end_time
        THEN idle_call.exc = "none" /\ ~idle_call.ret /\ idle_call.after = idle_call.act
        ELSE idle_call.exc = "none" /\ idle_call.ret /\ idle_call.after = NoAction

\* C5: no registered agent stays stuck: once a minute event has been handled
\* at or after the completion time of an agent's action, the agent no longer
\* holds that action
C5_NoAgentStuck ==
    \A a \in last_event.registered :
        current_action[a] # NoAction => last_event.time < current_action[a].end_time

\* C6: when a cycle in which a step raised has ended, the agent's action in
\* progress is a wait that completes one minute after the cycle's start
C6_FailedCycleWaits ==
    \A a \in Agents :
        (cycle[a].ended /\ cycle[a].raised # {}) =>
            current_action[a] = [kind |-> "Wait", end_time |-> AddMinutes(cycle[a].start, 1)]

\* C8: after a cycle has raised, the next tick still takes place and still
\* gives every registered agent without an action in progress its task
C8_OthersStillDispatched ==
    [][((\E e \in error_log : e.site \in {"_trigger_agent_think", "think_and_act"})
        /\ current_time' # current_time)
       => /\ current_time' = current_time + 1
          /\ \A a \in SeqRange(registry_agents) :
                current_action[a] = NoAction => a \in last_event'.dispatched]_vars

\* the calls of the last tick made for the event e
EventCalls(e) == SelectSeq(last_tick.calls, LAMBDA c : c.event = e)

\* C11: a tick publishes on_hour_passed if and only if the hour of day of the
\* new time differs from that of the old time, and on_day_passed if and only
\* if the calendar day differs; each at most once (every subscriber is called
\* once), with the new time
C11_HourAndDayEvents ==
    last_tick # NoTick =>
        LET hourChanged == (last_tick.old \div 60) % 24 # (last_tick.new \div 60) % 24
            dayChanged == last_tick.old \div 1440 # last_tick.new \div 1440
        IN  /\ Len(EventCalls("on_hour_passed")) =
                  (IF hourChanged THEN Len(last_tick.subs["on_hour_passed"]) ELSE 0)
            /\ Len(EventCalls("on_day_passed")) =
                  (IF dayChanged THEN Len(last_tick.subs["on_day_passed"]) ELSE 0)
            /\ \A i \in 1..Len(last_tick.calls) :
                  last_tick.calls[i].event \in {"on_hour_passed", "on_day_passed"}
                     => last_tick.calls[i].time = last_tick.new

\* a tick within a day that ends an hour called the hour's subscriber and not the day's
C11_Witness ==
    /\ last_tick # NoTick
    /\ last_tick.new = 60
    /\ Len(last_tick.subs["on_hour_passed"]) = 1
    /\ Len(last_tick.subs["on_day_passed"]) = 1
    /\ Len(EventCalls("on_hour_passed")) = 1
    /\ Len(EventCalls("on_day_passed")) = 0

\* the fixed month-to-season mapping, January first
SeasonOfMonth ==
    <<"Winter", "Winter", "Spring", "Spring", "Spring", "Summer", "Summer", "Summer",
      "Autumn", "Autumn", "Autumn", "Winter">>

\* C12: a tick publishes on_season_changed if and only if it crosses a day
\* boundary and the season of the new date differs from that of the old date;
\* every subscriber is then called once with the new season's name ("Spring"
\* from February into March), and a tick within a month publishes it not at all
C12_SeasonEvent ==
    last_tick # NoTick =>
        LET oldSeason == SeasonOfMonth[Month(last_tick.old)]
            newSeason == SeasonOfMonth[Month(last_tick.new)]
            crossed == last_tick.old \div 1440 # last_tick.new \div 1440
                       /\ oldSeason # newSeason
            sc == EventCalls("on_season_changed")
        IN  /\ Len(sc) = (IF crossed THEN Len(last_tick.subs["on_season_changed"]) ELSE 0)
            /\ \A i \in 1..Len(sc) :
                  /\ sc[i].season = newSeason
                  /\ sc[i].cb = last_tick.subs["on_season_changed"][i]
            /\ Month(last_tick.old) = Month(last_tick.new) => Len(sc) = 0
            /\ (Month(last_tick.old) = 2 /\ Month(last_tick.new) = 3) =>
                  \A i \in 1..Len(sc) : sc[i].season = "Spring"

\* the tick from 02-28 23:59 to 03-01 00:00 called the season's subscriber with "Spring"
C12_Witness ==
    /\ last_tick # NoTick
    /\ Month(last_tick.old) = 2 /\ Month(last_tick.new) = 3
    /\ Len(EventCalls("on_season_changed")) = 1
    /\ EventCalls("on_season_changed")[1].season = "Spring"

\* C13: publishing an event calls every subscriber of the event once, in the
\* order of subscription; when a subscriber raises, the ones after it are
\* still called and the tick still publishes its remaining events
C13_PublishAllInOrder ==
    last_tick # NoTick =>
        /\ \A e \in EventNames :
              \/ EventCalls(e) = <<>>
              \/ /\ Len(EventCalls(e)) = Len(last_tick.subs[e])
                 /\ \A i \in 1..Len(EventCalls(e)) :
                       EventCalls(e)[i].cb = last_tick.subs[e][i]
        /\ Len(last_tick.calls) =
              Len(last_tick.subs["on_minute_passed"])
              + (IF Hour(last_tick.old) # Hour(last_tick.new)
                 THEN Len(last_tick.subs["on_hour_passed"]) ELSE 0)
              + (IF Day(last_tick.old) # Day(last_tick.new)
                 THEN Len(last_tick.subs["on_day_passed"]) ELSE 0)
              + Len(EventCalls("on_season_changed"))

\* the minute's subscriber raised, and the subscriber of the hour was called after it
C13_Witness ==
    /\ last_tick # NoTick
    /\ Len(last_tick.calls) = 2
    /\ last_tick.calls[1].event = "on_minute_passed" /\ last_tick.calls[1].raised
    /\ last_tick.calls[2].event = "on_hour_passed"

\* C14: subscribe with a name that is none of the four event names raises
\* nothing and changes no subscriber list, so no tick calls the callback;
\* with one of the four names it appends the callback to that list alone
C14_SubscribeUnknownIsNoOp ==
    /\ last_subscribe.event # "none" =>
          IF last_subscribe.event \in {"on_minute_passed", "on_hour_passed",
                                       "on_day_passed", "on_season_changed"}
          THEN /\ DOMAIN listeners = DOMAIN last_subscribe.before
               /\ listeners[last_subscribe.event] =
                     Append(last_subscribe.before[last_subscribe.event], last_subscribe.cb)
               /\ \A e \in DOMAIN listeners \ {last_subscribe.event} :
                     listeners[e] = last_subscribe.before[e]
          ELSE listeners = last_subscribe.before
    /\ \A i \in 1..Len(last_tick.calls) :
          last_tick.calls[i].event \in {"on_minute_passed", "on_hour_passed",
                                        "on_day_passed", "on_season_changed"}

\* a callback was subscribed under "on_tick" alone, and a tick followed that called nobody
C14_Witness ==
    /\ last_subscribe.event = "on_tick"
    /\ \A e \in EventNames : listeners[e] = <<>>
    /\ last_tick # NoTick
    /\ last_tick.calls = <<>>

\* C15: set_time_scale with a scale <= 0 leaves the time scale and the sleep
\* duration as they were, in the constructor too (where both are 1.0); with a
\* scale > 0 it sets the time scale to it and the sleep duration to its
\* reciprocal. The time scale is positive at all times
C15_SetTimeScale ==
    /\ last_set_scale.scale.num <= 0 =>
          /\ time_scale = last_set_scale.time_scale
          /\ sleep_duration = last_set_scale.sleep_duration
    /\ last_set_scale.scale.num > 0 =>
          /\ time_scale = last_set_scale.scale
          /\ sleep_duration.num * time_scale.num = sleep_duration.den * time_scale.den
    /\ last_set_scale.ctor /\ last_set_scale.scale.num <= 0 =>
          time_scale = [num |-> 1, den |-> 1] /\ sleep_duration = [num |-> 1, den |-> 1]
    /\ time_scale.num > 0 /\ time_scale.den > 0

\* a scale of 0.0 was refused on a Timeline running at 0.5, whose sleep stays 2.0
C15_Witness ==
    /\ ~last_set_scale.ctor
    /\ last_set_scale.scale = [num |-> 0, den |-> 1]
    /\ time_scale = [num |-> 1, den |-> 2]
    /\ sleep_duration = [num |-> 2, den |-> 1]

\* the connections the file declares, as <<start, end, minutes>>
Declared == {Edges(raw_connections)[i] : i \in 1..Len(Edges(raw_connections))}

\* the edges the map stores
Stored == {Edges(connections)[i] : i \in 1..Len(Edges(connections))}

\* C16: for every declared connection (a, b, t) with t > 0 between two known
\* locations, after loading the direct travel time from a to b and the one
\* from b to a are both t, whichever directions the file declares
C16_TravelTimeSymmetric ==
    map_loaded =>
        \A c \in Declared :
            (c[1] \in MapLocations /\ c[2] \in MapLocations /\ c[3] > 0) =>
                /\ get_travel_time(connections, c[1], c[2]) = c[3]
                /\ get_travel_time(connections, c[2], c[1]) = c[3]

\* the sum of the stored edge weights along a sequence of locations, from
\* its i-th location on
RECURSIVE WalkCost(_, _)
WalkCost(q, i) ==
    IF i >= Len(q) THEN 0
    ELSE Get(Get(connections, q[i]), q[i + 1]) + WalkCost(q, i + 1)

\* the sequences of two to four locations from a to b joined by stored edges
Walks(a, b) ==
    {q \in UNION {[1..n -> MapLocations] : n \in 2..(Cardinality(MapLocations) + 1)} :
        /\ q[1] = a /\ q[Len(q)] = b
        /\ \A i \in 1..(Len(q) - 1) : HasEdge(connections, q[i], q[i + 1])}

\* C17: a path find_path returns begins with start, ends with end, has an
\* edge between every two consecutive locations, and its reported cost is
\* the sum of those edges' weights; find_path(a, a) is ([a], 0) for a location a
C17_PathIsSound ==
    path_call.start # "none" =>
        /\ path_call.ret.found =>
              LET q == path_call.ret.path
              IN  /\ Len(q) >= 1
                  /\ q[1] = path_call.start /\ q[Len(q)] = path_call.end
                  /\ \A i \in 1..(Len(q) - 1) : HasEdge(connections, q[i], q[i + 1])
                  /\ path_call.ret.cost = WalkCost(q, 1)
        /\ (path_call.start = path_call.end /\ path_call.start \in MapLocations) =>
              /\ path_call.ret.found
              /\ path_call.ret.path = <<path_call.start>>
              /\ path_call.ret.cost = 0

\* a path over two edges was returned where a direct edge exists too
C17_Witness ==
    /\ path_call.ret.found
    /\ Len(path_call.ret.path) = 3
    /\ HasEdge(connections, path_call.start, path_call.end)

\* C18: the cost find_path reports is minimal over the sequences of edges
\* from start to end, and a path is returned whenever such a sequence exists
C18_PathIsShortest ==
    (path_call.start # "none" /\ path_call.start # path_call.end) =>
        \A q \in Walks(path_call.start, path_call.end) :
            path_call.ret.found /\ path_call.ret.cost <= WalkCost(q, 1)

\* the direct edge costs 3 and find_path reports 2
C18_Witness ==
    /\ path_call.ret.found
    /\ path_call.ret.cost = 2
    /\ HasEdge(connections, path_call.start, path_call.end)
    /\ Get(Get(connections, path_call.start), path_call.end) = 3

\* C19: find_path raises nothing; for an end that no sequence of edges
\* reaches from start, and for a name that is no location, it returns no path
C19_FindPathNeverRaises ==
    path_call.start # "none" =>
        /\ path_call.ret.exc = "none"
        /\ (path_call.start \notin MapLocations \/ path_call.end \notin MapLocations) =>
              ~path_call.ret.found
        /\ (path_call.start # path_call.end
            /\ Walks(path_call.start, path_call.end) = {}) => ~path_call.ret.found

\* no path between two locations of a map that has edges, one of them
\* declared to a name that is no location
C19_Witness ==
    /\ path_call.start \in MapLocations /\ path_call.end \in MapLocations
    /\ path_call.start # path_call.end
    /\ ~path_call.ret.found
    /\ Stored # {}
    /\ \E c \in Declared : c[1] = path_call.start /\ c[2] \notin MapLocations

\* C20: after loading, every stored edge joins two loaded locations and has a
\* positive travel time, and is a declared connection with both endpoints
\* known and a positive time, or the reverse of one
C20_StoredEdgesValid ==
    map_loaded =>
        \A e \in Stored :
            /\ e[1] \in MapLocations /\ e[2] \in MapLocations
            /\ e[3] > 0
            /\ \/ e \in Declared
               \/ <<e[2], e[1], e[3]>> \in Declared

\* a file with a zero time, an unknown end and an unknown start was loaded
\* into a map that has edges
C20_Witness ==
    /\ map_loaded
    /\ Stored # {}
    /\ \E c \in Declared : c[3] = 0
    /\ \E c \in Declared : c[2] \notin MapLocations
    /\ \E c \in Declared : c[1] \notin MapLocations

\* x brought into lo..hi
Clamped(x, lo, hi) == IF x < lo THEN lo ELSE IF x > hi THEN hi ELSE x

\* the value the entry rel holds for an attribute (0 where there is no entry)
\* after change is added to it
Updated(rel, name, change) ==
    IF name = "affinity" THEN Clamped(rel.affinity + change, -100, 100)
    ELSE Clamped(rel.familiarity + change, 0, 100)

\* C21: after any sequence of relationship updates, with deltas of any sign
\* and magnitude, every affinity is in [-100, 100] and every familiarity in
\* [0, 100]; an update of another agent's entry sets each attribute it names to
\* the old value plus the delta, clamped to that range, and leaves the other
C21_RelationshipsClamped ==
    [][/\ \A a \in Agents, t \in TargetIds :
             /\ relationships'[a][t].affinity \in -100..100
             /\ relationships'[a][t].familiarity \in 0..100
       /\ \A a \in Agents : \A t \in TargetIds \ {a} :
             (ops' # ops /\ last_exec'.op = "update_relationship"
              /\ last_exec'.agent = a /\ last_exec'.targets = <<t>>)
             => LET changes == last_exec'.changes
                    named(n) == \E i \in 1..Len(changes) : changes[i][1] = n
                    delta(n) == (CHOOSE c \in SeqRange(changes) : c[1] = n)[2]
                    old == relationships[a][t]
                    new == relationships'[a][t]
                IN  /\ new.present
                    /\ new.affinity = IF named("affinity")
                                      THEN Updated(old, "affinity", delta("affinity"))
                                      ELSE old.affinity
                    /\ new.familiarity = IF named("familiarity")
                                         THEN Updated(old, "familiarity", delta("familiarity"))
                                         ELSE old.familiarity]_vars

\* an affinity raised by 200 is 100 and a familiarity lowered by 50 is 0
C21_Witness ==
    /\ last_exec.op = "update_relationship"
    /\ last_exec.changes = <<<<"familiarity", -50>>, <<"affinity", 200>>>>
    /\ \E a \in Agents, t \in TargetIds :
          /\ last_exec.agent = a /\ last_exec.targets = <<t>>
          /\ relationships[a][t].present
          /\ relationships[a][t].affinity = 100
          /\ relationships[a][t].familiarity = 0

\* C22: no sequence of operations, speak, listen and hang-out actions that
\* name the agent itself included, creates an entry for an agent's own id in
\* its relationship map, and update_relationship called with the agent's own
\* id leaves the map as it was
C22_NoSelfRelationship ==
    [][/\ \A a \in Agents : ~relationships'[a][a].present
       /\ (ops' # ops /\ last_exec'.op = "update_relationship"
           /\ last_exec'.targets = <<last_exec'.agent>>)
          => relationships' = relationships]_vars

\* a registered agent has spoken to itself
C22_Witness ==
    /\ last_exec.op = "Speak"
    /\ last_exec.targets = <<last_exec.agent>>
    /\ get_agent_by_id(last_exec.agent) # "None"
    /\ internal_state[last_exec.agent].social_need < 7

\* C23: registering an agent whose id is registered already raises an error
\* and leaves the registry as it was: the id still maps to the first agent
\* and the number of agents is the same
C23_DuplicateRegistrationRaises ==
    [][last_register' # last_register
       => IF AgentIdOf(last_register'.agent) \in SeqRange(registry_agents)
          THEN /\ last_register'.exc = "ValueError"
               /\ registry_agents' = registry_agents
               /\ registry_map' = registry_map
          ELSE /\ last_register'.exc = "none"
               /\ registry_agents' = Append(registry_agents, AgentIdOf(last_register'.agent))
               /\ registry_map'[AgentIdOf(last_register'.agent)] = last_register'.agent]_vars

\* a second object with a registered id was refused, and the id maps to the first
C23_Witness ==
    /\ last_register.exc = "ValueError"
    /\ registry_map[AgentIdOf(last_register.agent)] # last_register.agent
    /\ registry_map[AgentIdOf(last_register.agent)] # "None"
    /\ Len(registry_agents) = 2

\* C24: an agent's internal state is changed only by that agent's own decision
\* cycle: the execution of another agent's action changes at most the first
\* agent's relationship map
C24_OnlyOwnActionsChangeState ==
    [][\A b \in Agents :
          b # last_exec'.agent => internal_state'[b] = internal_state[b]]_vars

Resolvers == {"interact_with_object", "perform_work", "buy_item"}

\* C26: every call of the object-interaction, work or purchase resolver that
\* returns failure leaves the agent's internal state, its money and the ledger
\* as they were and reports a duration of 1; a purchase whose price times
\* quantity is more than the agent's money returns (false, 1)
C26_FailedResolverChangesNothing ==
    [][(ops' # ops /\ last_exec'.op \in Resolvers /\ last_exec'.exc = "none")
       => /\ ~last_exec'.ok
             => /\ internal_state' = internal_state
                /\ occupied_jobs' = occupied_jobs
                /\ last_exec'.duration = 1
          /\ \A p \in {<<"apple", 2>>, <<"bread", 3>>} :
                (/\ last_exec'.op = "buy_item" /\ last_exec'.targets = <<p[1]>>
                 /\ current_location["a1"] = "Supermarket"
                 /\ p[2] * last_exec'.changes[1][2] > internal_state["a1"].money)
                => ~last_exec'.ok /\ last_exec'.duration = 1]_vars

\* with 3 in hand, two loaves at 3 each were refused
C26_Witness ==
    /\ last_exec.op = "buy_item" /\ last_exec.targets = <<"bread">>
    /\ last_exec.changes = <<<<"quantity", 2>>>>
    /\ current_location["a1"] = "Supermarket"
    /\ ~last_exec.ok /\ last_exec.duration = 1
    /\ internal_state["a1"].money = 3

\* C27: energy, hunger, stress, social need, hygiene and laundry need are each
\* within 0..100 after any sequence of actions and resolver calls
C27_NeedsWithinRange ==
    \A a \in Agents :
       \A n \in {"energy", "hunger", "stress_level", "social_need", "hygiene",
                 "laundry_need"} :
          internal_state[a][n] \in 0..100

\* C28: the money of an agent is never negative: object interaction, purchase,
\* eating at the cafe, the coffee machine and the buy action take their cost
\* only from an agent that has at least that much
C28_MoneyNeverNegative ==
    \A a \in Agents : internal_state[a].money >= 0

\* a purchase took the agent's last money
C28_Witness ==
    /\ last_exec.op = "buy_item" /\ last_exec.ok
    /\ last_exec.changes = <<<<"quantity", 2>>>>
    /\ internal_state["a1"].money = 0

\* the candidate of the last retrieval that holds the record doc
CandidateOf(doc) ==
    memory_call.candidates[CHOOSE i \in 1..Len(memory_call.candidates) :
                              memory_call.candidates[i].doc = doc]

C30_StorageFailuresContained ==
    [][/\ memory_call'.exc = "none"
       /\ (memory_call'.op = "retrieve_memories" /\ memory_call'.failed)
          => memory_call'.result = <<>>
       /\ store' # store
          => /\ memory_call'.op = "add_memory"
             /\ ~memory_call'.failed
             /\ memory_call'.content # ""
       /\ \A a \in Agents :
             /\ (cycle[a].pc = "retrieving" /\ cycle'[a] # cycle[a])
                => /\ "retrieve" \notin cycle'[a].raised
                   /\ cycle'[a].pc = "deciding" \/ "prompt" \in cycle'[a].raised
             /\ (cycle[a].pc = "writing" /\ cycle'[a] # cycle[a])
                => /\ cycle'[a].ended
                   /\ "execution" \notin cycle'[a].raised
                   /\ current_action'[a] = current_action[a]]_vars

\* the store failed the retrieval of a1's cycle, and the cycle is at its decision
C30_Witness ==
    /\ memory_call.op = "retrieve_memories" /\ memory_call.failed
    /\ memory_call.agent = "a1" /\ memory_call.top_k = 10
    /\ memory_call.result = <<>>
    /\ cycle["a1"].pc = "deciding"

\* C31: is_job_available(location, job type) returns true exactly when the
\* location exists, declares the job type with a capacity above zero, and
\* fewer ledger entries than that capacity equal (location, job type); the
\* call leaves the ledger as it was
C31_IsJobAvailable ==
    [][(assign_ret'.agent = "none" /\ assign_ret'.location # "none")
       => LET l == assign_ret'.location
              j == assign_ret'.job
              holders == {w \in Workers :
                            occupied_jobs[w] = [location |-> l, job |-> j]}
          IN  /\ assign_ret'.ret
                 <=> /\ l \in {"Cafe", "Supermarket", "Park"}
                     /\ \E p \in WorldJobs[l] :
                           p[1] = j /\ p[2] > 0 /\ Cardinality(holders) < p[2]
              /\ occupied_jobs' = occupied_jobs]_vars

\* the one barista slot of the cafe is taken, and the query said so
C31_Witness ==
    /\ assign_ret.agent = "none" /\ assign_ret.location = "Cafe"
    /\ assign_ret.job = "barista" /\ ~assign_ret.ret
    /\ \E w \in Workers : occupied_jobs[w] = Job("Cafe", "barista")

\* C32: release(agent) removes the agent's entry and no other, and changes
\* nothing when the agent has none; released right after its successful
\* assign, the agent leaves the ledger as it was before the assign, the slot
\* is available again and the agent can be assigned to it again
C32_ReleaseRemovesOwnEntry ==
    [][assign_ret'.released # "none"
       => LET a == assign_ret'.released
          IN  /\ occupied_jobs'[a] = NoJob
              /\ \A w \in Workers \ {a} : occupied_jobs'[w] = occupied_jobs[w]
              /\ occupied_jobs[a] = NoJob => occupied_jobs' = occupied_jobs
              /\ (assign_ret.agent = a /\ assign_ret.ret)
                 => /\ occupied_jobs' = assign_ret.before
                    /\ is_job_available(occupied_jobs', assign_ret.location,
                                        assign_ret.job)
                    /\ assign_job_to_agent(occupied_jobs', a, assign_ret.location,
                                           assign_ret.job).ret]_vars

\* an agent that held a job was released while another agent keeps its own
C32_Witness ==
    /\ assign_ret.released # "none"
    /\ assign_ret.before[assign_ret.released] # NoJob
    /\ occupied_jobs[assign_ret.released] = NoJob
    /\ \E w \in Workers : occupied_jobs[w] # NoJob

\* C33: the work resolver returns failure with money and state unchanged when
\* the slot is full or the agent holds a job already; where the agent's
\* location has an object of the job type with a wage and a free slot, it
\* returns (true, the requested minutes), has added round(hourly_wage / 60 *
\* minutes) to the money, and the agent's ledger entry is there on return
C33_WorkPaysAfterAssign ==
    [][(ops' # ops /\ last_exec'.op = "perform_work")
       => \A w \in {<<"Cafe", "barista", 15>>, <<"Supermarket", "cashier", 12>>} :
             (current_location["a1"] = w[1] /\ last_exec'.targets = <<w[2]>>)
             => IF assign_job_to_agent(occupied_jobs, "a1", w[1], w[2]).ret
                THEN /\ last_exec'.exc = "none"
                     /\ last_exec'.ok
                     /\ last_exec'.duration = 60
                     /\ internal_state'["a1"].money
                           = internal_state["a1"].money + w[3]
                     /\ occupied_jobs'["a1"] = Job(w[1], w[2])
                ELSE /\ ~last_exec'.ok
                     /\ internal_state' = internal_state
                     /\ occupied_jobs' = occupied_jobs]_vars

C36_IdleAgentsHoldNoSlot ==
    \A a \in Agents :
        (cycle[a].ended /\ current_action[a] = NoAction) => occupied_jobs[a] = NoJob

\* C37: the completion time a decision cycle records is later than the time
\* engine's current time at the moment it is recorded
C37_EndTimeAfterNow ==
    [][\A a \in Agents :
          (current_action'[a] # current_action[a] /\ current_action'[a] # NoAction)
          => current_action'[a].end_time > current_time']_vars

\* C38: after a decision cycle that ends in a move action the agent is at its
\* previous location or at a known location, and a move whose target is not in
\* the location list leaves the agent where it was
C38_MoveStaysOnTheMap ==
    [][\A a \in Agents :
          (cycle'[a] # cycle[a] /\ cycle'[a].ended /\ cycle'[a].plan.kind = "MoveTo")
          => /\ current_location'[a] \in {current_location[a]} \cup LOCATIONS
             /\ cycle'[a].plan.target \notin LOCATIONS
                   => current_location'[a] = current_location[a]]_vars

\* C39: a minute_passed event in which the idle check of one agent raised has
\* still checked every registered agent, and has given a task to every other
\* registered agent without an action in progress
C39_RaisingCheckSkipsNobody ==
    (last_event.time # -1 /\ last_event.exc # "none")
    => /\ last_event.checked = last_event.registered
       /\ \E a \in last_event.checked :
             last_event.idle \ {a} \subseteq last_event.dispatched

\* C40: a tick publishes its events in the order minute_passed, hour_passed,
\* day_passed, season_changed, each after the time has been advanced, so that
\* every subscriber handed a time is handed the engine's new current time;
\* and the simulated time changes in no step other than a tick
C40_EventsInOrderAfterAdvance ==
    [][/\ current_time' # current_time
          => /\ loop_pc = "sleep_tick"
             /\ last_tick'.old = current_time
             /\ last_tick'.new = current_time'
       /\ last_tick' # last_tick
          => LET calls == last_tick'.calls
                 rank == [e \in EventNames |->
                            IF e = "on_minute_passed" THEN 1
                            ELSE IF e = "on_hour_passed" THEN 2
                            ELSE IF e = "on_day_passed" THEN 3
                            ELSE 4]
             IN  /\ current_time' = current_time + 1
                 /\ \A i \in 1..Len(calls) : \A j \in 1..Len(calls) :
                       i < j => rank[calls[i].event] <= rank[calls[j].event]
                 /\ \A i \in 1..Len(calls) :
                       calls[i].event # "on_season_changed"
                       => calls[i].time = current_time']_vars

\* the tick into March called a subscriber of day_passed with the new time and
\* then a subscriber of season_changed, on a Timeline that is not paused
C40_Witness ==
    /\ last_tick # NoTick
    /\ Len(last_tick.calls) = 2
    /\ last_tick.calls[1].event = "on_day_passed"
    /\ last_tick.calls[1].time = current_time
    /\ last_tick.calls[2].event = "on_season_changed"
    /\ ~is_paused

====
